---- MODULE Spec2Model ----
(***************************************************************************)
(* The device-state synchronization engine of bluepicast                   *)
(* (package bluetooth, type Adapter): the device registry, the             *)
(* notification worker, the command facade and the discovery session,      *)
(* together with the BlueZ bus they talk to.                               *)
(*                                                                         *)
(* Go strings that the code takes apart (addresses, object paths) are      *)
(* sequences of atoms, so that strings.ReplaceAll and strings.HasPrefix    *)
(* are computed, not assumed.  Device records live on a heap and the       *)
(* registry maps a path to a heap cell, as map[string]*Device does.        *)
(***************************************************************************)
EXTENDS Integers, Sequences, FiniteSets, TLC

VARIABLES
    devices,    \* a.devices: object path -> heap cell of the *Device
    heap,       \* heap cell -> Device record
    onChange,   \* a.onChange  (Nil or a handler)
    onConnect,  \* a.onConnect (Nil or a handler)
    th,         \* per thread: position in the call it runs, and its locals
    pending,    \* goroutines started by `go handler(...)` that have not run yet
    held,       \* the []*Device a collaborator received last, and what it read then
    origin,     \* for each registry entry, the kind of application that created it
    bus,        \* the BlueZ objects: interfaces exposed and Device1 properties
    queue,      \* the signals channel: notifications received and not yet handled
    nEv,        \* changes made on the bus by others so far (bounded by MaxEvents)
    input,      \* SpecApply: the path and property set under test
    stage,      \* SpecApply: how many times the input has been applied
    after1,     \* SpecApply: the Device record after the first application
    call,       \* the snapcast function under test: its argument and its results
    slots,      \* handler goroutines the scheduler lets wait before they run
    nOps,       \* calls issued so far by the drivers (bounded by MaxOps)
    scanning,   \* Adapter.scanning
    adapter,    \* the adapter object on the bus: Powered, Discovering
    hist        \* SpecDisc: the discovery calls made so far and what they did

vars == <<devices, heap, onChange, onConnect, th, pending, held, origin,
          bus, queue, nEv, input, stage, after1, call, slots, nOps, scanning,
          adapter, hist>>

disc == <<scanning, adapter, hist>>
drv == <<input, stage, after1, call, slots, slots, disc>>
env == <<bus, queue, nEv>>

----------------------------------------------------------------------------
(* Bounds of the model *)

MaxProps == 2
MaxRegKeys == 1
MaxOps == 4
MaxPending == 1
MaxObjs == 6
MaxEvents == 2
MaxQueue == 1
MaxCalls == 1
MaxDiscCalls == 3

----------------------------------------------------------------------------
(* Strings, paths, variants *)

Nil == "nil"
Handlers == {"h1", "h2"}

Empty == <<>>

(* No function of the snapcast package is under test. *)
NoCall == [fn |-> "none", arg |-> <<>>, outs |-> <<>>]
Str(x) == <<x>>

adapterPath == <<"/org/bluez/hci0">>
otherAdapterPath == <<"/org/bluez/hci1">>

Addr1 == <<"AA", ":", "BB">>
Addr2 == <<"CC", ":", "DD">>

HasPrefix(s, p) == Len(s) >= Len(p) /\ SubSeq(s, 1, Len(p)) = p

ReplaceAll(s, old, new) == [i \in 1..Len(s) |-> IF s[i] = old THEN new ELSE s[i]]

getDevicePath(address) ==
    LET devAddr == <<"dev_">> \o ReplaceAll(address, ":", "_")
    IN  adapterPath \o <<"/">> \o devAddr

DevPrefix == adapterPath \o <<"/", "dev_">>

P1 == getDevicePath(Addr1)
P2 == getDevicePath(Addr2)
Foreign == otherAdapterPath \o <<"/", "dev_">> \o ReplaceAll(Addr1, ":", "_")

PathOrder == <<P1, P2, Foreign>>

(* A dbus.Variant: its dynamic type and its value. *)
VS(s) == [t |-> "s", s |-> s, b |-> FALSE, n |-> 0]
VB(b) == [t |-> "b", s |-> Empty, b |-> b, n |-> 0]
VN(n) == [t |-> "n", s |-> Empty, b |-> FALSE, n |-> n]

StrVals == {Empty, Str("x"), Str("y")}
Variants == {VS(s) : s \in StrVals} \cup {VB(b) : b \in BOOLEAN} \cup {VN(0 - 60)}

KeyOrder == <<"Address", "Name", "Alias", "Paired", "Connected", "Trusted",
              "RSSI", "Icon", "Adapter">>
Keys == {KeyOrder[i] : i \in 1..Len(KeyOrder)}

NoProps == [k \in {} |-> VB(FALSE)]

PropSets(n) ==
    UNION {[K -> Variants] : K \in {S \in SUBSET Keys : Cardinality(S) <= n}}

ZeroDevice ==
    [Address |-> Empty, Name |-> Empty, Paired |-> FALSE, Connected |-> FALSE,
     Trusted |-> FALSE, RSSI |-> 0, Icon |-> Empty]

----------------------------------------------------------------------------
(* updateDevice's merge of a property set into a Device *)

(* A merge that stores the zero value when the type assertion fails. *)
ApplyKey_Unchecked(d, key, val) ==
    CASE key = "Paired" -> [d EXCEPT !.Paired = val.b]
      [] key = "Connected" -> [d EXCEPT !.Connected = val.b]
      [] key = "Trusted" -> [d EXCEPT !.Trusted = val.b]
      [] key = "Address" -> [d EXCEPT !.Address = val.s]
      [] key = "Icon" -> [d EXCEPT !.Icon = val.s]
      [] key = "RSSI" -> [d EXCEPT !.RSSI = val.n]
      [] key \in {"Name", "Alias"} -> IF val.s # Empty THEN [d EXCEPT !.Name = val.s] ELSE d
      [] OTHER -> d

ApplyKey(d, key, val) ==
    CASE key = "Address" ->
            IF val.t = "s" THEN [d EXCEPT !.Address = val.s] ELSE d
      [] key \in {"Name", "Alias"} ->
            IF val.t = "s" /\ val.s # Empty THEN [d EXCEPT !.Name = val.s] ELSE d
      [] key = "Paired" ->
            IF val.t = "b" THEN [d EXCEPT !.Paired = val.b] ELSE d
      [] key = "Connected" ->
            IF val.t = "b" THEN [d EXCEPT !.Connected = val.b] ELSE d
      [] key = "Trusted" ->
            IF val.t = "b" THEN [d EXCEPT !.Trusted = val.b] ELSE d
      [] key = "RSSI" ->
            IF val.t = "n" THEN [d EXCEPT !.RSSI = val.n] ELSE d
      [] key = "Icon" ->
            IF val.t = "s" THEN [d EXCEPT !.Icon = val.s] ELSE d
      [] OTHER -> d

RECURSIVE ApplyProps(_, _, _)
ApplyProps(d, props, order) ==
    IF order = <<>> THEN d
    ELSE ApplyProps(ApplyKey(d, Head(order), props[Head(order)]), props, Tail(order))

(* `for key, val := range props`: Go starts a map iteration at a random      *)
(* position; the orders are the rotations of the keys present.               *)
InOrder(seq, S) == SelectSeq(seq, LAMBDA x : x \in S)
Rotations(s) ==
    IF s = <<>> THEN {<<>>}
    ELSE {SubSeq(s, k, Len(s)) \o SubSeq(s, 1, k - 1) : k \in 1..Len(s)}
Orders(props) == Rotations(InOrder(KeyOrder, DOMAIN props))

----------------------------------------------------------------------------
(* The heap of Device records *)

Ids == 1..MaxObjs
Range(f) == {f[x] : x \in DOMAIN f}

SnapIds(sigs) == UNION {Range(sigs[i].snap) : i \in 1..Len(sigs)}

RootsOf(devs, pend, hld) == Range(devs) \cup Range(hld.ptrs) \cup SnapIds(pend)

Roots == RootsOf(devices, pending, held)
FreeIds == Ids \ Roots
NewId == CHOOSE i \in FreeIds : \A j \in FreeIds : i <= j

(* Cells nothing refers to any more are reclaimed. *)
Collect(h, roots) == [i \in Ids |-> IF i \in roots THEN h[i] ELSE ZeroDevice]

Dev(p) == heap[devices[p]]

----------------------------------------------------------------------------
(* The bus: the objects BlueZ exports.  An object exposes the device         *)
(* interface (dev), possibly another interface on the same path (aux, such   *)
(* as org.bluez.Battery1), and the Device1 properties.                       *)

bluezDeviceIface == "org.bluez.Device1"
otherIface == "org.bluez.Battery1"

BusPaths == {P1, Foreign}
DevicePaths == {P1}

NoObject == [dev |-> FALSE, aux |-> FALSE, Connected |-> FALSE, Paired |-> FALSE,
             Trusted |-> FALSE]
NoBus == [p \in BusPaths |-> NoObject]

Exists(p) == p \in BusPaths /\ bus[p].dev

(* BlueZ names a device object after its adapter and its address. *)
PathAddr(p) == ReplaceAll(SubSeq(p, 4, Len(p)), "_", ":")

(* The Device1 properties of an object, as GetAll, GetManagedObjects and     *)
(* InterfacesAdded report them.                                              *)
FullProps(o, p) ==
    [k \in {"Address", "Alias", "Paired", "Connected", "Trusted", "Adapter"} |->
        CASE k = "Address" -> VS(PathAddr(p))
          [] k = "Alias" -> VS(Str("x"))
          [] k = "Adapter" -> VS(SubSeq(p, 1, 1))
          [] OTHER -> VB(o[k])]

Ifaces(o) == {bluezDeviceIface} \cup (IF o.aux THEN {otherIface} ELSE {})

(* A notification, and the form of its body: well formed ("ok"), fewer than *)
(* two elements ("short"), or an element of another type than the signal's  *)
(* signature asks for: the object path ("badpath"), the interface name of    *)
(* PropertiesChanged ("badiface"), the second element ("badpayload").        *)
Added(p, ifaces, props) ==
    [name |-> "InterfacesAdded", path |-> p, ifaces |-> ifaces, iface |-> "",
     props |-> props, form |-> "ok"]
Removed(p, ifaces) ==
    [name |-> "InterfacesRemoved", path |-> p, ifaces |-> ifaces, iface |-> "",
     props |-> NoProps, form |-> "ok"]
Changed(p, iface, props) ==
    [name |-> "PropertiesChanged", path |-> p, ifaces |-> {}, iface |-> iface,
     props |-> props, form |-> "ok"]

----------------------------------------------------------------------------
(* The discovery session as the engine starts: Idle, the adapter powered by  *)
(* NewAdapter.                                                               *)
NoDiscovery ==
    /\ scanning = FALSE
    /\ adapter = [Powered |-> TRUE, Discovering |-> FALSE]
    /\ hist = <<>>

----------------------------------------------------------------------------
(* Threads: the caller of a driver ("api"), the notification worker and the  *)
(* callers of the command facade.  A thread record holds the position in the *)
(* call being run, the return addresses of the enclosing calls, the locals   *)
(* of the function being run, and what the call has dispatched so far.       *)

Threads == {"api", "worker", "cmd"}

(* The registry as values: path -> Device record. *)
ViewOf(devs, h) == [p \in DOMAIN devs |-> h[devs[p]]]
View == ViewOf(devices, heap)
NoView == [p \in {} |-> ZeroDevice]

(* What a device-connected handler is given: a pointer, either to a Device  *)
(* of its own (ref = 0, dev its contents) or to the cell ref of the heap.    *)
NoCopy == [ref |-> 0, dev |-> ZeroDevice]

IdleThread ==
    [pc |-> "idle", stack |-> <<>>, op |-> "none", addr |-> Empty, path |-> Empty,
     props |-> NoProps, src |-> "none", todo |-> <<>>,
     was |-> FALSE, just |-> FALSE, cb |-> Nil, copy |-> NoCopy,
     exists |-> FALSE, hnd |-> Nil, res |-> "none",
     \* the registry as the thread's last section under the lock left it
     at |-> NoView,
     \* what an observer of the call records: the registry when the call began,
     \* the bus calls it issued, the signals it dispatched, the signals anyone
     \* dispatched while it ran, and whether it ran undisturbed
     pre |-> NoView, calls |-> <<>>, sent |-> <<>>, heard |-> <<>>, quiet |-> FALSE]

(* A return: the locals of the function that returns are gone. *)
Ret(tr) ==
    LET out == [tr EXCEPT !.props = NoProps, !.was = FALSE, !.just = FALSE,
                          !.cb = Nil, !.copy = NoCopy, !.exists = FALSE,
                          !.hnd = Nil, !.at = NoView]
    IN  IF tr.stack = <<>> THEN [out EXCEPT !.pc = "idle"]
        ELSE [out EXCEPT !.pc = Head(tr.stack), !.stack = Tail(tr.stack)]

(* What an observer notes of a signal: its kind, its handler and the device *)
(* it carries.                                                               *)
Noted(sigs) ==
    [i \in 1..Len(sigs) |-> [kind |-> sigs[i].kind, h |-> sigs[i].h, dev |-> sigs[i].dev]]

(* The thread t dispatches sigs; every call in progress hears them. *)
Dispatch(t, sigs) ==
    [u \in DOMAIN th |->
        IF u = t THEN [th[t] EXCEPT !.sent = @ \o Noted(sigs), !.heard = @ \o Noted(sigs)]
        ELSE IF th[u].pc # "idle" THEN [th[u] EXCEPT !.heard = @ \o Noted(sigs)]
        ELSE th[u]]

(* Something other than the calls in progress acted on the engine or the bus. *)
Disturbed ==
    [u \in DOMAIN th |-> IF th[u].pc = "idle" THEN th[u] ELSE [th[u] EXCEPT !.quiet = FALSE]]

(* The worker's loop keeps nothing of a notification it has handled. *)
Settle(thr) ==
    [u \in DOMAIN thr |->
        IF u = "worker" /\ thr[u].pc = "idle" THEN IdleThread ELSE thr[u]]

(* The next state of the registry, the heap, the threads and the handlers    *)
(* started; origin records the application that created each entry.          *)
Put(devs, h, thr, pend, hld) ==
    /\ devices' = devs
    /\ origin' = [p \in DOMAIN devs |->
                    IF p \in DOMAIN devices THEN origin[p]
                    ELSE thr[CHOOSE t \in DOMAIN th : th[t].pc = "upd" /\ th[t].path = p
                                                      /\ thr[t].pc = "upd_notify"].src]
    /\ th' = Settle(thr)
    /\ pending' = pend
    /\ held' = hld
    /\ heap' = Collect(h, RootsOf(devs, pend, hld))

ChangeSig(h, snap) ==
    [kind |-> "change", h |-> h, snap |-> snap, dev |-> ZeroDevice, ref |-> 0]
ConnectSig(h, c) ==
    [kind |-> "connect", h |-> h, snap |-> <<>>, dev |-> c.dev, ref |-> c.ref]

(* What the holder of such a pointer reads through it. *)
Deref(c) == IF c.ref = 0 THEN c.dev ELSE heap[c.ref]

NoSnapshot == [ptrs |-> <<>>, seen |-> <<>>, from |-> "none"]

(* GetDevices / GetPairedDevices: the pointers of the map, appended in map   *)
(* iteration order.                                                          *)
Snapshots(paths) ==
    {[i \in 1..Len(o) |-> devices[o[i]]] : o \in Rotations(InOrder(PathOrder, paths))}

GetDevices == Snapshots(DOMAIN devices)

(* A GetPairedDevices that keeps only the paired devices. *)
GetPairedDevices_PairedOnly ==
    Snapshots({p \in DOMAIN devices : Dev(p).Paired})

GetPairedDevices ==
    Snapshots({p \in DOMAIN devices : Dev(p).Paired \/ Dev(p).Connected})

Read(ptrs) == [i \in 1..Len(ptrs) |-> heap[ptrs[i]]]

----------------------------------------------------------------------------
(* updateDevice *)

(* The handler goroutines started earlier have run before the registry is    *)
(* changed again: the bound on the handlers in flight.                       *)
HandlersKeepUp == Len(pending) < slots

(* An edge detector that forgets the previous connection state. *)
JustConnected_NoPrevious(wasConnected, connected) == connected

(* Line 348. *)
JustConnected(wasConnected, connected) == ~wasConnected /\ connected

(* An updateDevice without the test of the path. *)
Ignored_Never(path) == FALSE

(* Lines 298-301: only paths under the adapter's device subtree are devices. *)
Ignored(path) == ~HasPrefix(path, DevPrefix)

(* A callback argument that points at the registry's own Device. *)
deviceCopy_Alias(id, device) == [ref |-> id, dev |-> device]

(* Line 352, deviceCopy := *device: a Device of its own, with the values the *)
(* registry's Device has under the lock.                                     *)
deviceCopy(id, device) == [ref |-> 0, dev |-> device]

(* A registry that creates its records already connected. *)
NewDevice_Connected == [ZeroDevice EXCEPT !.Connected = TRUE]

(* Line 307: `&Device{}`, every field at its zero value. *)
NewDevice == ZeroDevice

(* Lines 298-354: the prefix test and the section under a.mu.Lock(). *)
UpdLocked(t) ==
    /\ th[t].pc = "upd"
    /\ HandlersKeepUp
    /\ LET tr == th[t] IN
       IF Ignored(tr.path)
       THEN Put(devices, heap, [th EXCEPT ![t] = Ret(tr)], pending, held)
       ELSE /\ tr.path \notin DOMAIN devices => FreeIds # {}
            /\ \E order \in Orders(tr.props) :
                 LET exists == tr.path \in DOMAIN devices
                     id == IF exists THEN devices[tr.path] ELSE NewId
                     device == IF exists THEN heap[id] ELSE NewDevice
                     devs2 == IF exists THEN devices
                              ELSE [p \in DOMAIN devices \cup {tr.path} |->
                                      IF p = tr.path THEN id ELSE devices[p]]
                     wasConnected == device.Connected
                     merged == ApplyProps(device, tr.props, order)
                     justConnected == JustConnected(wasConnected, merged.Connected)
                 IN  Put(devs2, [heap EXCEPT ![id] = merged],
                         [th EXCEPT ![t] = [tr EXCEPT !.pc = "upd_notify",
                                                      !.exists = exists,
                                                      !.was = wasConnected,
                                                      !.just = justConnected,
                                                      !.cb = onConnect,
                                                      !.copy = deviceCopy(id, merged),
                                                      !.at = ViewOf(devs2, [heap EXCEPT ![id] = merged])]],
                         pending, held)
    /\ UNCHANGED <<onChange, onConnect, env, drv, nOps>>

(* A dispatch that calls the handlers on the dispatching thread, where a     *)
(* handler that never returns keeps the thread.                              *)
Go_Inline(tr, pend, sigs) ==
    [tr |-> IF sigs = <<>> THEN Ret(tr) ELSE [tr EXCEPT !.pc = "in_handler"],
     pend |-> pend]

(* `go handler(...)`, lines 357, 362, 377 and 654: each handler is started   *)
(* as a goroutine of its own and the dispatching thread goes on.             *)
Go(tr, pend, sigs) == [tr |-> Ret(tr), pend |-> pend \o sigs]

(* Lines 356-363, after a.mu.Unlock(): a.onChange is read, GetDevices() is   *)
(* evaluated by the caller, and the handlers are started as goroutines.      *)
UpdNotify(t) ==
    /\ th[t].pc = "upd_notify"
    /\ \E snap \in GetDevices :
         LET tr == th[t]
             sigs == (IF onChange # Nil THEN <<ChangeSig(onChange, snap)>> ELSE <<>>)
                     \o (IF tr.just /\ tr.cb # Nil
                         THEN <<ConnectSig(tr.cb, tr.copy)>> ELSE <<>>)
         IN  Put(devices, heap,
                 [Dispatch(t, sigs) EXCEPT ![t] = Go(@, pending, sigs).tr],
                 Go(tr, pending, sigs).pend, held)
    /\ UNCHANGED <<onChange, onConnect, env, drv, nOps>>

----------------------------------------------------------------------------
(* removeDevice *)

(* Lines 367-373: the section under a.mu.Lock(). *)
RmLocked(t) ==
    /\ th[t].pc = "rm"
    /\ HandlersKeepUp
    /\ LET tr == th[t]
           exists == tr.path \in DOMAIN devices
           devs2 == IF exists
                    THEN [p \in DOMAIN devices \ {tr.path} |-> devices[p]]
                    ELSE devices
       IN  Put(devs2, heap,
               [th EXCEPT ![t] = [tr EXCEPT !.pc = "rm_notify",
                                            !.exists = exists,
                                            !.hnd = onChange,
                                            !.at = ViewOf(devs2, heap)]],
               pending, held)
    /\ UNCHANGED <<onChange, onConnect, env, drv, nOps>>

(* A removal that reports a change whether or not the device was known. *)
NotifiesRemoval_Always(exists, handler) == handler # Nil

(* Line 376. *)
NotifiesRemoval(exists, handler) == exists /\ handler # Nil

(* Lines 375-378. *)
RmNotify(t) ==
    /\ th[t].pc = "rm_notify"
    /\ \E snap \in GetDevices :
         LET tr == th[t]
             sigs == IF NotifiesRemoval(tr.exists, tr.hnd)
                     THEN <<ChangeSig(tr.hnd, snap)>> ELSE <<>>
         IN  Put(devices, heap,
                 [Dispatch(t, sigs) EXCEPT ![t] = Go(@, pending, sigs).tr],
                 Go(tr, pending, sigs).pend, held)
    /\ UNCHANGED <<onChange, onConnect, env, drv, nOps>>

----------------------------------------------------------------------------
(* Handlers and queries *)

SetOnChange(t, fn, op) ==
    /\ onChange' = fn
    /\ th' = [Disturbed EXCEPT ![t] = [IdleThread EXCEPT !.op = op]]
    /\ UNCHANGED <<devices, heap, onConnect, pending, held, origin, env, drv>>

SetOnConnect(t, fn, op) ==
    /\ onConnect' = fn
    /\ th' = [Disturbed EXCEPT ![t] = [IdleThread EXCEPT !.op = op]]
    /\ UNCHANGED <<devices, heap, onChange, pending, held, origin, env, drv>>

Without(seq, i) == SubSeq(seq, 1, i - 1) \o SubSeq(seq, i + 1, Len(seq))

(* A goroutine started by `go onChange(snapshot)` / `go onConnect(&copy)`    *)
(* runs: the handler reads what it was given.                                *)
RunHandler ==
    /\ \E i \in 1..Len(pending) :
         LET sig == pending[i]
             hld == IF sig.kind = "change"
                    THEN [ptrs |-> sig.snap, seen |-> Read(sig.snap), from |-> "onChange"]
                    ELSE [ptrs |-> <<>>, seen |-> <<>>, from |-> "onConnect",
                          given |-> [ref |-> sig.ref, dev |-> sig.dev]]
         IN  Put(devices, heap, th, Without(pending, i), hld)
    /\ UNCHANGED <<onChange, onConnect, env, drv, nOps>>

(* The handler NewServer registers, broadcastDevices, serialises what it was *)
(* given and keeps nothing.                                                  *)
Broadcast ==
    /\ \E i \in 1..Len(pending) :
         Put(devices, heap, th, Without(pending, i), held)
    /\ UNCHANGED <<onChange, onConnect, env, drv, nOps>>

(* A handler that never returns: the goroutine started for it stays in the  *)
(* handler, beside the threads of the engine.                                *)
Blocked == [ptrs |-> <<>>, seen |-> <<>>, from |-> "blocked"]

HandlerBlocks ==
    /\ \E i \in 1..Len(pending) :
         Put(devices, heap, th, Without(pending, i), Blocked)
    /\ UNCHANGED <<onChange, onConnect, env, drv, nOps>>

CallGetDevices(t) ==
    /\ \E snap \in GetDevices :
         Put(devices, heap,
             [th EXCEPT ![t] = [IdleThread EXCEPT !.op = "GetDevices"]], pending,
             [ptrs |-> snap, seen |-> Read(snap), from |-> "GetDevices"])
    /\ UNCHANGED <<onChange, onConnect, env, drv>>

CallGetPairedDevices(t) ==
    /\ \E snap \in GetPairedDevices :
         Put(devices, heap,
             [th EXCEPT ![t] = [IdleThread EXCEPT !.op = "GetPairedDevices"]], pending,
             [ptrs |-> snap, seen |-> Read(snap), from |-> "GetPairedDevices"])
    /\ UNCHANGED <<onChange, onConnect, env, drv>>

----------------------------------------------------------------------------
(* SpecApply: one property set applied twice to one path *)

FullDevice ==
    [Address |-> Str("y"), Name |-> Str("y"), Paired |-> TRUE, Connected |-> TRUE,
     Trusted |-> TRUE, RSSI |-> 0 - 60, Icon |-> Str("y")]

StartDevices == {ZeroDevice, FullDevice}

Call(t, op, path, props) ==
    [IdleThread EXCEPT !.pc = op, !.op = op, !.path = path, !.props = props,
                       !.src = "call", !.pre = View,
                       !.quiet = (queue = <<>> /\ \A u \in Threads \ {t} : th[u].pc = "idle")]

InitApply ==
    /\ \E d \in StartDevices : heap = [i \in Ids |-> IF i = 1 THEN d ELSE ZeroDevice]
    /\ devices \in {[p \in {} |-> 1], [p \in {P1} |-> 1]}
    /\ devices = [p \in {} |-> 1] => heap[1] = ZeroDevice
    /\ onChange = "h1"
    /\ onConnect = "h1"
    /\ th = [t \in Threads |-> IdleThread]
    /\ pending = <<>>
    /\ held = NoSnapshot
    /\ origin = [p \in DOMAIN devices |-> "load"]
    /\ bus = NoBus
    /\ queue = <<>>
    /\ nEv = 0
    /\ input \in [path : {P1, Foreign}, props : PropSets(MaxProps)]
    /\ stage = 0
    /\ call = NoCall
    /\ slots = MaxPending
    /\ after1 = ZeroDevice
    /\ NoDiscovery
    /\ nOps = 0

ApplyInput ==
    /\ th["api"].pc = "idle"
    /\ stage < 2
    /\ stage' = stage + 1
    /\ after1' = IF stage = 1 /\ input.path \in DOMAIN devices
                 THEN Dev(input.path) ELSE after1
    /\ th' = [th EXCEPT !["api"] = Call("api", "upd", input.path, input.props)]
    /\ UNCHANGED <<devices, heap, onChange, onConnect, pending, held, origin,
                   env, input, call, slots, nOps, disc>>

NextApply ==
    \/ ApplyInput
    \/ UpdLocked("api")
    \/ UpdNotify("api")
    \/ RunHandler

SpecApply == InitApply /\ [][NextApply]_vars

\* C1: applying the same property set twice in succession through
\* updateDevice leaves the Device record after the second application
\* identical to the record after the first application.
C1_Idempotent ==
    (stage = 2 /\ th["api"].pc = "idle" /\ input.path \in DOMAIN devices)
        => Dev(input.path) = after1

----------------------------------------------------------------------------
(* SpecReg: a caller drives the registry through updateDevice, removeDevice, *)
(* the queries and the handler registrations, one call after the other,      *)
(* while the started handler goroutines run whenever they are scheduled.     *)

RegPaths == {P1, P2, Foreign}
RegKeys == {"Connected", "Paired", "Name"}
RegVariants == {VB(TRUE), VB(FALSE), VS(Str("x"))}
RegProps ==
    UNION {[K -> RegVariants] :
             K \in {S \in SUBSET RegKeys : Cardinality(S) <= MaxRegKeys}}

CanCall(t) ==
    /\ th[t].pc = "idle"
    /\ nOps < MaxOps
    /\ Len(pending) < slots

InitReg ==
    /\ devices = [p \in {} |-> 1]
    /\ heap = [i \in Ids |-> ZeroDevice]
    /\ onChange = Nil
    /\ onConnect = Nil
    /\ th = [t \in Threads |-> IdleThread]
    /\ pending = <<>>
    /\ held = NoSnapshot
    /\ origin = [p \in DOMAIN devices |-> "load"]
    /\ bus = NoBus
    /\ queue = <<>>
    /\ nEv = 0
    /\ input = [path |-> Empty, props |-> NoProps]
    /\ stage = 0
    /\ call = NoCall
    /\ slots = MaxPending
    /\ after1 = ZeroDevice
    /\ NoDiscovery
    /\ nOps = 0

CallUpdate ==
    /\ CanCall("api")
    /\ \E p \in RegPaths, props \in RegProps :
         th' = [th EXCEPT !["api"] = Call("api", "upd", p, props)]
    /\ nOps' = nOps + 1
    /\ UNCHANGED <<devices, heap, onChange, onConnect, pending, held, origin,
                   env, drv>>

CallRemove ==
    /\ CanCall("api")
    /\ \E p \in RegPaths :
         th' = [th EXCEPT !["api"] = Call("api", "rm", p, NoProps)]
    /\ nOps' = nOps + 1
    /\ UNCHANGED <<devices, heap, onChange, onConnect, pending, held, origin,
                   env, drv>>

CallSetOnChange ==
    /\ CanCall("api")
    /\ \E fn \in Handlers \cup {Nil} : SetOnChange("api", fn, "SetOnChange")
    /\ nOps' = nOps + 1

CallSetOnConnect ==
    /\ CanCall("api")
    /\ \E fn \in Handlers \cup {Nil} : SetOnConnect("api", fn, "SetOnConnect")
    /\ nOps' = nOps + 1

QueryDevices ==
    /\ CanCall("api")
    /\ CallGetDevices("api")
    /\ nOps' = nOps + 1

QueryPairedDevices ==
    /\ CanCall("api")
    /\ CallGetPairedDevices("api")
    /\ nOps' = nOps + 1

NextReg ==
    \/ CallUpdate
    \/ CallRemove
    \/ CallSetOnChange
    \/ CallSetOnConnect
    \/ UpdLocked("api")
    \/ UpdNotify("api")
    \/ RmLocked("api")
    \/ RmNotify("api")
    \/ Broadcast

SpecReg == InitReg /\ [][NextReg]_vars

(* SpecSnap: the same calls beside holders of snapshots: callers of          *)
(* GetDevices / GetPairedDevices and an onChange handler that keeps what it  *)
(* was given.                                                                *)
NextSnap ==
    \/ CallUpdate
    \/ CallRemove
    \/ CallSetOnChange
    \/ CallSetOnConnect
    \/ QueryDevices
    \/ QueryPairedDevices
    \/ UpdLocked("api")
    \/ UpdNotify("api")
    \/ RmLocked("api")
    \/ RmNotify("api")
    \/ RunHandler

SpecSnap == InitReg /\ [][NextSnap]_vars

----------------------------------------------------------------------------
(* What others do on the bus.  Each change is followed by the notification   *)
(* BlueZ emits for it, which the connection puts on the signals channel.     *)

CanEmit == Len(queue) < MaxQueue

(* The calls the application makes on the engine beside the bus. *)
CanStart(t) == th[t].pc = "idle" /\ nOps < MaxCalls /\ Len(pending) < slots
CanHappen == nEv < MaxEvents /\ CanEmit

Happens(b, note) ==
    /\ bus' = b
    /\ queue' = Append(queue, note)
    /\ nEv' = nEv + 1
    /\ th' = Disturbed
    /\ UNCHANGED <<devices, heap, onChange, onConnect, pending, held, origin,
                   drv, nOps>>

BusAppear ==
    /\ CanHappen
    /\ \E p \in BusPaths :
         /\ ~bus[p].dev
         /\ LET o == [NoObject EXCEPT !.dev = TRUE]
            IN  Happens([bus EXCEPT ![p] = o],
                        Added(p, {bluezDeviceIface}, FullProps(o, p)))

BusVanish ==
    /\ CanHappen
    /\ \E p \in BusPaths :
         /\ bus[p].dev
         /\ Happens([bus EXCEPT ![p] = NoObject], Removed(p, Ifaces(bus[p])))

BusAuxAppear ==
    /\ CanHappen
    /\ \E p \in DevicePaths :
         /\ bus[p].dev /\ ~bus[p].aux
         /\ Happens([bus EXCEPT ![p].aux = TRUE], Added(p, {otherIface}, NoProps))

BusAuxVanish ==
    /\ CanHappen
    /\ \E p \in DevicePaths :
         /\ bus[p].dev /\ bus[p].aux
         /\ Happens([bus EXCEPT ![p].aux = FALSE], Removed(p, {otherIface}))

BusConnectedChange ==
    /\ CanHappen
    /\ \E p \in DevicePaths :
         /\ bus[p].dev
         /\ Happens([bus EXCEPT ![p].Connected = ~@],
                    Changed(p, bluezDeviceIface,
                            [k \in {"Connected"} |-> VB(~bus[p].Connected)]))

----------------------------------------------------------------------------
(* The notification worker: setupSignals' goroutine and handleSignal *)

(* Lines 246-250 and 258-295: one notification is taken from the channel and *)
(* handleSignal selects what to do with it.                                  *)
handleSignal(sig) ==
    CASE sig.name = "InterfacesAdded" ->
            IF sig.form \in {"short", "badpath", "badpayload"} THEN "idle"
            ELSE IF bluezDeviceIface \in sig.ifaces THEN "upd" ELSE "idle"
      [] sig.name = "InterfacesRemoved" ->
            IF sig.form \in {"short", "badpath"} THEN "idle" ELSE "rm"
      [] sig.name = "PropertiesChanged" ->
            IF sig.form \in {"short", "badiface"} THEN "idle"
            ELSE IF sig.iface # bluezDeviceIface THEN "idle"
            ELSE IF sig.form = "badpayload" THEN "idle"
            ELSE "upd"
      [] OTHER -> "idle"

(* A worker that takes the newest notification first. *)
TakeFrom_Newest(q) == [sig |-> q[Len(q)], rest |-> SubSeq(q, 1, Len(q) - 1)]

(* Line 246, `signal, ok := <-signals`: a channel hands over what was sent  *)
(* first.                                                                    *)
TakeFrom(q) == [sig |-> Head(q), rest |-> Tail(q)]

Receive ==
    /\ th["worker"].pc = "idle"
    /\ queue # <<>>
    /\ Len(pending) < slots
    /\ LET sig == TakeFrom(queue).sig
       IN  th' = Settle([th EXCEPT !["worker"] =
                            [Call("worker", sig.name, sig.path, sig.props)
                                EXCEPT !.pc = handleSignal(sig), !.src = sig.name]])
    /\ queue' = TakeFrom(queue).rest
    /\ UNCHANGED <<devices, heap, onChange, onConnect, pending, held, origin,
                   bus, nEv, drv, nOps>>

----------------------------------------------------------------------------
(* The command facade *)

CmdNames == {"trust", "pair", "connect", "disconnect", "remove"}
CmdAddrs == {Addr1, Addr2}

StartCmd ==
    /\ CanStart("cmd")
    /\ \E c \in CmdNames, a \in CmdAddrs :
         th' = [th EXCEPT !["cmd"] =
                  [Call("cmd", c, Empty, NoProps)
                      EXCEPT !.addr = a, !.stack = <<"cmd_ret">>]]
    /\ nOps' = nOps + 1
    /\ UNCHANGED <<devices, heap, onChange, onConnect, pending, held, origin,
                   env, drv>>

Issued(tr, method, ok) == [tr EXCEPT !.calls = Append(@, [m |-> method, ok |-> ok])]

Method(pc) ==
    CASE pc = "trust" -> "Set Trusted"
      [] pc = "pair" -> "Pair"
      [] pc = "disconnect" -> "Disconnect"
      [] pc = "connect_call" -> "Connect"

Sets(pc) ==
    CASE pc = "trust" -> [key |-> "Trusted", val |-> TRUE]
      [] pc = "pair" -> [key |-> "Paired", val |-> TRUE]
      [] pc = "disconnect" -> [key |-> "Connected", val |-> FALSE]
      [] pc = "connect_call" -> [key |-> "Connected", val |-> TRUE]

(* Connect, lines 574-585: the path is resolved and Trust is called. *)
ConnectBegin(t) ==
    /\ th[t].pc = "connect"
    /\ LET tr == th[t]
           devicePath == getDevicePath(tr.addr)
       IN  th' = [th EXCEPT ![t] =
                    IF devicePath = Empty
                    THEN Ret([tr EXCEPT !.res = "device not found"])
                    ELSE [tr EXCEPT !.path = devicePath, !.pc = "trust",
                                    !.stack = <<"connect_call">> \o @]]
    /\ UNCHANGED <<devices, heap, onChange, onConnect, pending, held, origin,
                   env, drv, nOps>>

(* A failed bus call whose error ends the whole command, whoever called.    *)
CallFailed_Abort(tr) ==
    [Ret(tr) EXCEPT !.res = "failed", !.pc = "cmd_ret", !.stack = <<>>]

(* Lines 536-539, 560-563, 589-592, 614-617: the function returns the error  *)
(* to its caller; Connect, the caller of Trust, only logs it (lines 582-585).*)
CallFailed(tr) == Ret([tr EXCEPT !.res = "failed"])

(* Trust 526-540, Pair 550-564, Disconnect 604-618, Connect 587-594: the     *)
(* path is resolved and the bus call is made; the bus answers with success   *)
(* or with an error, and with an error when the object does not exist.       *)
CmdCall(t) ==
    /\ th[t].pc \in {"trust", "pair", "disconnect", "connect_call"}
    /\ LET tr == th[t]
           devicePath == getDevicePath(tr.addr)
           set == Sets(tr.pc)
       IN  IF tr.pc # "connect_call" /\ devicePath = Empty
           THEN /\ th' = [th EXCEPT ![t] = Ret([tr EXCEPT !.res = "device not found"])]
                /\ UNCHANGED <<bus, queue>>
           ELSE /\ CanEmit
                /\ \E ok \in IF Exists(devicePath) THEN BOOLEAN ELSE {FALSE} :
                     LET changed == ok /\ bus[devicePath][set.key] # set.val
                         tr2 == Issued([tr EXCEPT !.path = devicePath], Method(tr.pc), ok)
                     IN  /\ bus' = IF ok THEN [bus EXCEPT ![devicePath][set.key] = set.val]
                                   ELSE bus
                         /\ queue' = IF changed
                                     THEN Append(queue,
                                            Changed(devicePath, bluezDeviceIface,
                                                    [k \in {set.key} |-> VB(set.val)]))
                                     ELSE queue
                         /\ th' = [th EXCEPT ![t] =
                                     IF ok THEN [tr2 EXCEPT !.pc = "refresh",
                                                            !.stack = <<"cmd_ok">> \o @]
                                     ELSE CallFailed(tr2)]
    /\ UNCHANGED <<devices, heap, onChange, onConnect, pending, held, origin,
                   nEv, drv, nOps>>

(* A refresh that reads the properties and drops them. *)
Refreshed_Dropped(tr, props) == Ret(tr)

(* Line 521: the properties GetAll returned go to updateDevice. *)
Refreshed(tr, props) == [tr EXCEPT !.props = props, !.src = "refresh", !.pc = "upd"]

(* A refresh that goes on to updateDevice with the empty map of a failed     *)
(* GetAll.                                                                   *)
RefreshFailed_Applies(tr) == [tr EXCEPT !.props = NoProps, !.src = "refresh", !.pc = "upd"]

(* Lines 515-518: a failed GetAll is logged and refreshDeviceProperties      *)
(* returns.                                                                  *)
RefreshFailed(tr) == Ret(tr)

(* refreshDeviceProperties, lines 510-522: GetAll, then updateDevice. *)
Refresh(t) ==
    /\ th[t].pc = "refresh"
    /\ \E ok \in IF Exists(th[t].path) THEN BOOLEAN ELSE {FALSE} :
         LET tr == Issued(th[t], "GetAll", ok)
         IN  th' = [th EXCEPT ![t] =
                      IF ok THEN Refreshed(tr, FullProps(bus[tr.path], tr.path))
                      ELSE RefreshFailed(tr)]
    /\ UNCHANGED <<devices, heap, onChange, onConnect, pending, held, origin,
                   env, drv, nOps>>

(* `return nil` of Trust, Pair, Connect and Disconnect. *)
CmdOk(t) ==
    /\ th[t].pc = "cmd_ok"
    /\ th' = [th EXCEPT ![t] = Ret([th[t] EXCEPT !.res = "ok"])]
    /\ UNCHANGED <<devices, heap, onChange, onConnect, pending, held, origin,
                   env, drv, nOps>>

(* The caller has the command's result. *)
CmdReturn(t) ==
    /\ th[t].pc = "cmd_ret"
    /\ th' = [th EXCEPT ![t] = IdleThread]
    /\ UNCHANGED <<devices, heap, onChange, onConnect, pending, held, origin,
                   env, drv, nOps>>

(* Remove, lines 628-640: the adapter's RemoveDevice call. *)
RemoveCall(t) ==
    /\ th[t].pc = "remove"
    /\ LET tr == th[t]
           devicePath == getDevicePath(tr.addr)
       IN  IF devicePath = Empty
           THEN /\ th' = [th EXCEPT ![t] = Ret([tr EXCEPT !.res = "device not found"])]
                /\ UNCHANGED <<bus, queue>>
           ELSE /\ CanEmit
                /\ \E ok \in IF Exists(devicePath) THEN BOOLEAN ELSE {FALSE} :
                     LET tr2 == Issued([tr EXCEPT !.path = devicePath], "RemoveDevice", ok)
                     IN  /\ bus' = IF ok THEN [bus EXCEPT ![devicePath] = NoObject] ELSE bus
                         /\ queue' = IF ok
                                     THEN Append(queue, Removed(devicePath, Ifaces(bus[devicePath])))
                                     ELSE queue
                         /\ th' = [th EXCEPT ![t] =
                                     IF ok THEN [tr2 EXCEPT !.pc = "remove_locked"]
                                     ELSE Ret([tr2 EXCEPT !.res = "failed"])]
    /\ UNCHANGED <<devices, heap, onChange, onConnect, pending, held, origin,
                   nEv, drv, nOps>>

(* A Remove that leaves the deletion to the notification. *)
RemoveFromMap_Skip(devs, path) == devs

(* Lines 646-649. *)
RemoveFromMap(devs, path) == [p \in DOMAIN devs \ {path} |-> devs[p]]

(* Remove, lines 645-651: the section under a.mu.Lock(). *)
RemoveLocked(t) ==
    /\ th[t].pc = "remove_locked"
    /\ HandlersKeepUp
    /\ LET tr == th[t]
       IN  Put(RemoveFromMap(devices, tr.path), heap,
               [th EXCEPT ![t] = [tr EXCEPT !.pc = "remove_notify",
                                            !.exists = tr.path \in DOMAIN devices,
                                            !.hnd = onChange,
                                            !.at = ViewOf(RemoveFromMap(devices, tr.path), heap)]],
               pending, held)
    /\ UNCHANGED <<onChange, onConnect, env, drv, nOps>>

(* A Remove that reports a change although the entry was already gone. *)
RemoveNotifies_Always(exists, handler) == handler # Nil

(* Line 653. *)
RemoveNotifies(exists, handler) == exists /\ handler # Nil

(* Remove, lines 653-658. *)
RemoveNotify(t) ==
    /\ th[t].pc = "remove_notify"
    /\ \E snap \in GetDevices :
         LET tr == th[t]
             sigs == IF RemoveNotifies(tr.exists, tr.hnd)
                     THEN <<ChangeSig(tr.hnd, snap)>> ELSE <<>>
         IN  Put(devices, heap,
                 [Dispatch(t, sigs) EXCEPT ![t] = Go([@ EXCEPT !.res = "ok"], pending, sigs).tr],
                 Go(tr, pending, sigs).pend, held)
    /\ UNCHANGED <<onChange, onConnect, env, drv, nOps>>

----------------------------------------------------------------------------
(* loadExistingDevices, as NewAdapter and StartDiscovery call it *)

(* The application registers its handlers: SetOnChange as NewServer does. *)
RegisterOnChange ==
    /\ onChange = Nil
    /\ SetOnChange("api", "h1", "none")
    /\ UNCHANGED nOps

RegisterOnConnect ==
    /\ onConnect = Nil
    /\ SetOnConnect("api", "h1", "none")
    /\ UNCHANGED nOps

StartLoad ==
    /\ CanStart("cmd")
    /\ th' = [th EXCEPT !["cmd"] =
                [Call("cmd", "load", Empty, NoProps) EXCEPT !.stack = <<"cmd_ret">>]]
    /\ nOps' = nOps + 1
    /\ UNCHANGED <<devices, heap, onChange, onConnect, pending, held, origin,
                   env, drv>>

(* Lines 493-499: GetManagedObjects; the objects exposing the device         *)
(* interface, in the order the range over the result visits them.            *)
LoadCall(t) ==
    /\ th[t].pc = "load"
    /\ \E ok \in BOOLEAN :
         LET tr == Issued(th[t], "GetManagedObjects", ok)
             found == {p \in BusPaths : bus[p].dev}
         IN  IF ok
             THEN \E o \in Rotations(InOrder(PathOrder, found)) :
                    th' = [th EXCEPT ![t] =
                             [tr EXCEPT !.pc = "load_loop",
                                        !.todo = [i \in 1..Len(o) |->
                                                    [path |-> o[i],
                                                     props |-> FullProps(bus[o[i]], o[i])]]]]
             ELSE th' = [th EXCEPT ![t] = Ret(tr)]
    /\ UNCHANGED <<devices, heap, onChange, onConnect, pending, held, origin,
                   env, drv, nOps>>

(* Lines 501-505. *)
LoadLoop(t) ==
    /\ th[t].pc = "load_loop"
    /\ LET tr == th[t]
       IN  th' = [th EXCEPT ![t] =
                    IF tr.todo = <<>> THEN Ret(tr)
                    ELSE [tr EXCEPT !.path = Head(tr.todo).path,
                                    !.props = Head(tr.todo).props,
                                    !.todo = Tail(tr.todo),
                                    !.src = "load",
                                    !.stack = <<"load_loop">> \o @,
                                    !.pc = "upd"]]
    /\ UNCHANGED <<devices, heap, onChange, onConnect, pending, held, origin,
                   env, drv, nOps>>

----------------------------------------------------------------------------
(* Spec: the engine after NewAdapter has returned, beside the bus *)

(* The registry NewAdapter's bulk load leaves for the objects of b. *)
Loaded(b) == {p \in BusPaths : b[p].dev /\ HasPrefix(p, DevPrefix)}

Init ==
    /\ bus \in {b \in [BusPaths -> {NoObject, [NoObject EXCEPT !.dev = TRUE]}] :
                  b[Foreign].dev}
    /\ devices = [p \in Loaded(bus) |-> 1]
    /\ heap = [i \in Ids |->
                 IF i = 1 /\ Loaded(bus) # {}
                 THEN ApplyProps(ZeroDevice, FullProps(bus[P1], P1),
                                 InOrder(KeyOrder, DOMAIN FullProps(bus[P1], P1)))
                 ELSE ZeroDevice]
    /\ origin = [p \in DOMAIN devices |-> "load"]
    /\ onChange = Nil
    /\ onConnect = Nil
    /\ th = [t \in Threads |-> IdleThread]
    /\ pending = <<>>
    /\ held = NoSnapshot
    /\ queue = <<>>
    /\ nEv = 0
    /\ input = [path |-> Empty, props |-> NoProps]
    /\ stage = 0
    /\ call = NoCall
    /\ slots = MaxPending
    /\ after1 = ZeroDevice
    /\ NoDiscovery
    /\ nOps = 0

EngineThreads == {"worker", "cmd"}

Next ==
    \/ BusAppear
    \/ BusVanish
    \/ BusAuxAppear
    \/ BusAuxVanish
    \/ BusConnectedChange
    \/ Receive
    \/ StartCmd
    \/ StartLoad
    \/ RegisterOnChange
    \/ RegisterOnConnect
    \/ \E t \in EngineThreads : UpdLocked(t)
    \/ \E t \in EngineThreads : UpdNotify(t)
    \/ RmLocked("worker")
    \/ RmNotify("worker")
    \/ ConnectBegin("cmd")
    \/ CmdCall("cmd")
    \/ Refresh("cmd")
    \/ CmdOk("cmd")
    \/ RemoveCall("cmd")
    \/ RemoveLocked("cmd")
    \/ RemoveNotify("cmd")
    \/ LoadCall("cmd")
    \/ LoadLoop("cmd")
    \/ CmdReturn("cmd")
    \/ Broadcast

Spec == Init /\ [][Next]_vars

----------------------------------------------------------------------------
(* Properties of the registry operations *)

Count(sigs, kind) == Cardinality({i \in 1..Len(sigs) : sigs[i].kind = kind})

Done(t, op) == th[t].op = op /\ th[t].pc = "idle"

ConnectedIn(view, p) == p \in DOMAIN view /\ view[p].Connected

\* C2: with an onConnect handler registered, an application of a property
\* set dispatches one device-connected signal when the device's Connected
\* value goes from false to true during it, and none otherwise (Connected
\* stays true, stays false, goes from true to false, or the path is not the
\* adapter's); the signal goes to the registered handler and carries the
\* device as it is after the application.
C2_ConnectEdge ==
    (Done("api", "upd") /\ onConnect # Nil) =>
        LET tr == th["api"]
            edge == ~ConnectedIn(tr.pre, tr.path) /\ ConnectedIn(View, tr.path)
        IN  /\ Count(tr.sent, "connect") = IF edge THEN 1 ELSE 0
            /\ \A i \in 1..Len(tr.sent) :
                 tr.sent[i].kind = "connect" =>
                    tr.sent[i].h = onConnect /\ tr.sent[i].dev = View[tr.path]

\* C2 witness: the fourth call of a run applied Connected=true to a device
\* that an earlier call had left with Connected=false, and dispatched one
\* device-connected signal.
C2_Witness ==
    /\ Done("api", "upd") /\ onConnect # Nil /\ nOps = 4
    /\ th["api"].path \in DOMAIN th["api"].pre
    /\ ~th["api"].pre[th["api"].path].Connected
    /\ View[th["api"].path].Connected
    /\ Count(th["api"].sent, "connect") = 1

\* C3: removeDevice on a path that is not in the registry leaves the
\* registry unchanged and dispatches no signal; on a path that is in the
\* registry it deletes exactly that entry and dispatches exactly one
\* registry-changed signal (to the registered onChange handler; there is
\* nothing to dispatch when none is registered) and no other signal.
C3_RemoveSafety ==
    Done("api", "rm") =>
        LET tr == th["api"] IN
        IF tr.path \in DOMAIN tr.pre
        THEN /\ View = [p \in DOMAIN tr.pre \ {tr.path} |-> tr.pre[p]]
             /\ Count(tr.sent, "change") = IF onChange # Nil THEN 1 ELSE 0
             /\ Len(tr.sent) = Count(tr.sent, "change")
        ELSE View = tr.pre /\ tr.sent = <<>>

\* C3 witness: removeDevice deleted one of two entries and dispatched one
\* registry-changed signal.
C3_Witness ==
    /\ Done("api", "rm") /\ onChange # Nil
    /\ th["api"].path \in DOMAIN th["api"].pre
    /\ Cardinality(DOMAIN th["api"].pre) = 2
    /\ Cardinality(DOMAIN devices) = 1
    /\ Count(th["api"].sent, "change") = 1

\* C3 witness of the other case: removeDevice of an absent path while
\* another device is registered and a handler is set.
C3_WitnessAbsent ==
    /\ Done("api", "rm") /\ onChange # Nil
    /\ th["api"].path \notin DOMAIN th["api"].pre
    /\ DOMAIN devices # {}

\* C8: the device records of a snapshot returned by GetDevices() or
\* GetPairedDevices(), or handed to the registry-changed handler, are
\* copies: what the holder reads in them never changes afterwards.
C8_SnapshotIsCopy == Read(held.ptrs) = held.seen

----------------------------------------------------------------------------
(* Properties of the engine beside the bus *)

(* The command of thread "cmd" is about to hand its result to the caller. *)
Returning(op) == th["cmd"].pc = "cmd_ret" /\ th["cmd"].op = op

Known(view, address) == \E p \in DOMAIN view : view[p].Address = address

AllOk(calls) == \A i \in 1..Len(calls) : calls[i].ok

Methods(calls) == [i \in 1..Len(calls) |-> calls[i].m]

ConnectsOf(sigs, address) ==
    Cardinality({i \in 1..Len(sigs) :
                    sigs[i].kind = "connect" /\ sigs[i].dev.Address = address})

\* C5: each of Trust, Pair, Connect, Disconnect and Remove, invoked with an
\* address for which the registry holds no Device, returns a
\* device-not-found error and has issued no bus call.
C5_UnknownAddress ==
    \A c \in CmdNames :
        (Returning(c) /\ ~Known(th["cmd"].pre, th["cmd"].addr)) =>
            th["cmd"].res = "device not found" /\ th["cmd"].calls = <<>>

(* The worker has handled every notification emitted so far. *)
Settled == queue = <<>> /\ th["worker"].pc = "idle"

C7_RemoveSynchronous ==
    LET tr == th["cmd"] IN
    (/\ Returning("remove") /\ tr.quiet /\ tr.res = "ok"
     /\ tr.path \in DOMAIN tr.pre)
        => /\ tr.path \notin DOMAIN devices
           /\ \A snap \in GetDevices :
                \A i \in 1..Len(snap) : heap[snap[i]].Address # tr.addr

\* C7 witness: Remove of a known device is returning success while the
\* object-removed notification of the removal is still in the channel.
C7_Witness ==
    LET tr == th["cmd"] IN
    /\ Returning("remove") /\ tr.quiet /\ tr.res = "ok"
    /\ tr.path \in DOMAIN tr.pre
    /\ tr.path \notin DOMAIN devices
    /\ queue = <<Removed(tr.path, {bluezDeviceIface})>>
    /\ th["worker"].pc = "idle"

(* Every notification emitted has been handled and nothing is in flight. *)
Reconciled == queue = <<>> /\ \A t \in Threads : th[t].pc = "idle"

DevicesOnBus == {p \in BusPaths : bus[p].dev /\ HasPrefix(p, DevPrefix)}

\* C9: whenever all emitted notifications have been reconciled and no
\* command or bulk load is in flight, the registry keys are the bus object
\* paths that expose the device interface under the managed adapter.
C9_RegistryMirrorsBus == Reconciled => DOMAIN devices = DevicesOnBus

\* C10 as claimed: a Device record is created only by a bulk load or by an
\* object-added notification.
C10_OnlyLoadOrAdded ==
    \A p \in DOMAIN devices : origin[p] \in {"load", "InterfacesAdded"}

\* C10 as amended: a Device record is created only by applying a property
\* set to a path under the adapter's device subtree that the registry does
\* not hold, whichever of a bulk load, an object-added notification, a
\* property-changed notification or a command refresh applies it.
C10_CreatedByApplication ==
    \A p \in DOMAIN devices :
        /\ HasPrefix(p, DevPrefix)
        /\ origin[p] \in {"load", "InterfacesAdded", "PropertiesChanged", "refresh"}

\* C10 witness: a property-changed notification recreated the entry of a
\* device that has been removed.
C10_Witness ==
    /\ P1 \in DOMAIN devices
    /\ origin[P1] = "PropertiesChanged"

\* C10 witness of the other source: a command's refresh created the entry.
C10_WitnessRefresh ==
    /\ P1 \in DOMAIN devices
    /\ origin[P1] = "refresh"

----------------------------------------------------------------------------
(* The discovery session: StartDiscovery, StopDiscovery, IsScanning *)

(* Lines 486-490. *)
IsScanning == scanning

CallDiscovery ==
    /\ th["cmd"].pc = "idle"
    /\ Len(hist) < MaxDiscCalls
    /\ \E op \in {"StartDiscovery", "StopDiscovery"} :
         /\ th' = [th EXCEPT !["cmd"] =
                     [Call("cmd", op, Empty, NoProps)
                         EXCEPT !.pc = IF op = "StartDiscovery" THEN "start" ELSE "stop",
                                !.stack = <<"disc_ret">>]]
         /\ hist' = Append(hist, [op |-> op, idle |-> ~IsScanning,
                                  powered |-> adapter.Powered, done |-> FALSE,
                                  res |-> "none", calls |-> <<>>, scanning |-> FALSE,
                                  seen |-> "none"])
    /\ UNCHANGED <<devices, heap, onChange, onConnect, pending, held, origin,
                   env, input, stage, after1, call, slots, nOps, scanning, adapter>>

(* The caller has the result; IsScanning() is what it would read now. *)
DiscReturn(t) ==
    /\ th[t].pc = "disc_ret"
    /\ hist' = [hist EXCEPT ![Len(hist)] =
                  [@ EXCEPT !.done = TRUE, !.res = th[t].res, !.calls = th[t].calls,
                            !.scanning = IsScanning]]
    /\ th' = [th EXCEPT ![t] = IdleThread]
    /\ UNCHANGED <<devices, heap, onChange, onConnect, pending, held, origin,
                   env, input, stage, after1, call, slots, nOps, scanning, adapter>>

(* The bus calls of the i-th discovery call so far. *)
CallsOf(i) == IF i = Len(hist) /\ ~hist[i].done THEN th["cmd"].calls ELSE hist[i].calls

(* A StartDiscovery bus call has returned success and no StopDiscovery has   *)
(* returned since.                                                           *)
BusStarted ==
    \E i \in 1..Len(hist) :
        /\ \E k \in 1..Len(CallsOf(i)) :
              CallsOf(i)[k].m = "StartDiscovery" /\ CallsOf(i)[k].ok
        /\ \A j \in (i + 1)..Len(hist) :
              hist[j].op = "StopDiscovery" => ~hist[j].done

(* IsScanning(), lines 486-490, called by an observer while a discovery     *)
(* call is in progress: the last answer is kept with that call, "early" for  *)
(* a true that no successful StartDiscovery bus call stands behind.          *)
CallIsScanning ==
    /\ Len(hist) > 0 /\ ~hist[Len(hist)].done
    /\ LET o == IF ~IsScanning THEN "idle"
                ELSE IF BusStarted THEN "scanning" ELSE "early"
       IN  /\ o # hist[Len(hist)].seen
           /\ hist' = [hist EXCEPT ![Len(hist)].seen = o]
    /\ UNCHANGED <<devices, heap, onChange, onConnect, th, pending, held, origin,
                   env, input, stage, after1, call, slots, nOps, scanning, adapter>>

(* A StartDiscovery that forgets to mark the session as scanning. *)
startLocked_NoMark(s) == [skip |-> s, scanning |-> s]

(* Lines 409-416: under the lock, a scan in progress is left alone and an    *)
(* idle session is marked scanning.                                          *)
startLocked(s) == [skip |-> s, scanning |-> TRUE]

StartLocked(t) ==
    /\ th[t].pc = "start"
    /\ LET r == startLocked(scanning)
       IN  /\ scanning' = r.scanning
           /\ th' = [th EXCEPT ![t] =
                       IF r.skip THEN Ret([th[t] EXCEPT !.res = "ok"])
                       ELSE [th[t] EXCEPT !.pc = "power_get"]]
    /\ UNCHANGED <<devices, heap, onChange, onConnect, pending, held, origin,
                   env, input, stage, after1, call, slots, nOps, adapter, hist>>

(* A StartDiscovery that does not run the bulk load. *)
PoweredOn_NoLoad(tr) ==
    IF tr.op = "NewAdapter" THEN [tr EXCEPT !.pc = "match_om"]
    ELSE [tr EXCEPT !.pc = "start_call"]

(* ensurePoweredOn returned nil: StartDiscovery goes on to                   *)
(* loadExistingDevices, line 433, and NewAdapter to setupSignals, line 110.  *)
PoweredOn(tr) ==
    IF tr.op = "NewAdapter" THEN [tr EXCEPT !.pc = "match_om"]
    ELSE [tr EXCEPT !.pc = "load", !.stack = <<"start_call">> \o @]

(* A NewAdapter that gives up when the adapter cannot be powered. *)
PowerFailed_Abort(tr) ==
    IF tr.op = "NewAdapter" THEN [tr EXCEPT !.pc = "new_abort"]
    ELSE [tr EXCEPT !.pc = "start_fail"]

(* ensurePoweredOn returned an error: StartDiscovery reverts and returns it, *)
(* lines 420-427; NewAdapter logs a warning and goes on, lines 105-107.      *)
PowerFailed(tr) ==
    IF tr.op = "NewAdapter" THEN [tr EXCEPT !.pc = "match_om"]
    ELSE [tr EXCEPT !.pc = "start_fail"]

(* ensurePoweredOn, lines 137-148: the Powered property is read. *)
PowerGet(t) ==
    /\ th[t].pc = "power_get"
    /\ \E ok \in BOOLEAN :
         LET tr == Issued(th[t], "Get Powered", ok)
         IN  th' = [th EXCEPT ![t] =
                      IF ~ok THEN PowerFailed(tr)
                      ELSE IF adapter.Powered THEN PoweredOn(tr)
                      ELSE [tr EXCEPT !.pc = "power_set"]]
    /\ UNCHANGED <<devices, heap, onChange, onConnect, pending, held, origin,
                   env, drv, nOps>>

(* ensurePoweredOn, lines 151-156 and, after rfkill, 164-171: Powered is set. *)
PowerSet(t) ==
    /\ th[t].pc \in {"power_set", "power_retry"}
    /\ \E ok \in BOOLEAN :
         LET tr == Issued(th[t], "Set Powered", ok)
         IN  /\ adapter' = IF ok THEN [adapter EXCEPT !.Powered = TRUE] ELSE adapter
             /\ th' = [th EXCEPT ![t] =
                         IF ok THEN PoweredOn(tr)
                         ELSE IF tr.pc = "power_set" THEN [tr EXCEPT !.pc = "rfkill"]
                         ELSE PowerFailed(tr)]
    /\ UNCHANGED <<devices, heap, onChange, onConnect, pending, held, origin,
                   env, input, stage, after1, call, slots, nOps, scanning, hist>>

(* ensurePoweredOn, lines 158-162, and tryUnblockBluetoothRfkill, 178-203. *)
Rfkill(t) ==
    /\ th[t].pc = "rfkill"
    /\ \E ok \in BOOLEAN :
         LET tr == Issued(th[t], "rfkill", ok)
         IN  th' = [th EXCEPT ![t] =
                      IF ok THEN [tr EXCEPT !.pc = "power_retry"] ELSE PowerFailed(tr)]
    /\ UNCHANGED <<devices, heap, onChange, onConnect, pending, held, origin,
                   env, drv, nOps>>

(* Lines 420-427 and 437-443: the session goes back to Idle on a failure. *)
StartFail(t) ==
    /\ th[t].pc = "start_fail"
    /\ scanning' = FALSE
    /\ th' = [th EXCEPT ![t] = Ret([th[t] EXCEPT !.res = "failed"])]
    /\ UNCHANGED <<devices, heap, onChange, onConnect, pending, held, origin,
                   env, input, stage, after1, call, slots, nOps, adapter, hist>>

(* Lines 435-445: the adapter's StartDiscovery call. *)
StartCall(t) ==
    /\ th[t].pc = "start_call"
    /\ \E ok \in BOOLEAN :
         LET tr == Issued(th[t], "StartDiscovery", ok)
         IN  /\ adapter' = IF ok THEN [adapter EXCEPT !.Discovering = TRUE] ELSE adapter
             /\ th' = [th EXCEPT ![t] =
                         IF ok THEN Ret([tr EXCEPT !.res = "ok"])
                         ELSE [tr EXCEPT !.pc = "start_fail"]]
    /\ UNCHANGED <<devices, heap, onChange, onConnect, pending, held, origin,
                   env, input, stage, after1, call, slots, nOps, scanning, hist>>

(* Lines 450-455. *)
StopLocked(t) ==
    /\ th[t].pc = "stop"
    /\ th' = [th EXCEPT ![t] =
                IF ~scanning THEN Ret([th[t] EXCEPT !.res = "ok"])
                ELSE [th[t] EXCEPT !.pc = "stop_call"]]
    /\ UNCHANGED <<devices, heap, onChange, onConnect, pending, held, origin,
                   env, drv, nOps>>

(* What the bus answers to StopDiscovery: success, a D-Bus error by name, or *)
(* an error that is not a D-Bus error.                                       *)
StopAnswers == {"ok", "org.bluez.Error.Failed", "org.bluez.Error.NotReady",
                "org.bluez.Error.NotAuthorized", "other"}

(* A StopDiscovery that reports every error of the bus. *)
stopResult_Strict(ans) == IF ans = "ok" THEN "ok" ELSE "failed"

(* Lines 466-482: the errors that mean the discovery was not active are not  *)
(* reported.                                                                 *)
stopResult(ans) ==
    IF ans \in {"ok", "org.bluez.Error.Failed", "org.bluez.Error.NotReady"}
    THEN "ok" ELSE "failed"

(* Lines 457-460: the adapter's StopDiscovery call, made with the lock       *)
(* released; org.bluez.Error.Failed and NotReady will not be reported,       *)
(* lines 466-482.                                                            *)
StopCall(t) ==
    /\ th[t].pc = "stop_call"
    /\ \E ans \in StopAnswers :
         LET tr == [th[t] EXCEPT !.calls = Append(@, [m |-> "StopDiscovery",
                                                      ok |-> ans = "ok", err |-> ans])]
         IN  /\ adapter' = IF ans = "ok" THEN [adapter EXCEPT !.Discovering = FALSE]
                           ELSE adapter
             /\ th' = [th EXCEPT ![t] = [tr EXCEPT !.res = stopResult(ans),
                                                   !.pc = "stop_clear"]]
    /\ UNCHANGED <<devices, heap, onChange, onConnect, pending, held, origin,
                   env, input, stage, after1, call, slots, nOps, scanning, hist>>

(* Lines 462-464: the lock is taken again and the session is Idle whatever   *)
(* the bus answered; then the result is returned.                            *)
StopClear(t) ==
    /\ th[t].pc = "stop_clear"
    /\ scanning' = FALSE
    /\ th' = [th EXCEPT ![t] = Ret(th[t])]
    /\ UNCHANGED <<devices, heap, onChange, onConnect, pending, held, origin,
                   env, input, stage, after1, call, slots, nOps, adapter, hist>>

(* SpecDisc: discovery calls one after the other, beside a bus that holds    *)
(* the devices BlueZ knows.                                                  *)
InitDisc ==
    /\ bus \in [BusPaths -> {NoObject, [NoObject EXCEPT !.dev = TRUE]}]
    /\ devices = [p \in Loaded(bus) |-> 1]
    /\ heap = [i \in Ids |->
                 IF i = 1 /\ Loaded(bus) # {}
                 THEN ApplyProps(ZeroDevice, FullProps(bus[P1], P1),
                                 InOrder(KeyOrder, DOMAIN FullProps(bus[P1], P1)))
                 ELSE ZeroDevice]
    /\ origin = [p \in DOMAIN devices |-> "load"]
    /\ onChange = Nil
    /\ onConnect = Nil
    /\ th = [t \in Threads |-> IdleThread]
    /\ pending = <<>>
    /\ held = NoSnapshot
    /\ queue = <<>>
    /\ nEv = 0
    /\ input = [path |-> Empty, props |-> NoProps]
    /\ stage = 0
    /\ call = NoCall
    /\ slots = MaxPending
    /\ after1 = ZeroDevice
    /\ nOps = 0
    /\ scanning = FALSE
    /\ adapter \in [Powered : BOOLEAN, Discovering : {FALSE}]
    /\ hist = <<>>

NextDisc ==
    \/ CallDiscovery
    \/ RegisterOnChange
    \/ StartLocked("cmd")
    \/ PowerGet("cmd")
    \/ PowerSet("cmd")
    \/ Rfkill("cmd")
    \/ StartFail("cmd")
    \/ LoadCall("cmd")
    \/ LoadLoop("cmd")
    \/ UpdLocked("cmd")
    \/ UpdNotify("cmd")
    \/ Broadcast
    \/ StartCall("cmd")
    \/ StopLocked("cmd")
    \/ StopCall("cmd")
    \/ StopClear("cmd")
    \/ DiscReturn("cmd")
    \/ CallIsScanning

SpecDisc == InitDisc /\ [][NextDisc]_vars

Starts(calls) == Cardinality({i \in 1..Len(calls) : calls[i].m = "StartDiscovery"})

\* C4: starting from Idle with a powered adapter and the bus answering
\* success, two StartDiscovery calls in a row issue exactly one
\* StartDiscovery bus call between them and leave IsScanning() true;
\* StopDiscovery called while Idle issues no bus call, returns no error and
\* leaves IsScanning() false.
C4_DiscoveryIdempotent ==
    \A i \in 1..Len(hist) :
        /\ (/\ i < Len(hist) /\ hist[i + 1].done
            /\ hist[i].op = "StartDiscovery" /\ hist[i + 1].op = "StartDiscovery"
            /\ hist[i].idle /\ hist[i].powered /\ AllOk(hist[i].calls))
              => /\ Starts(hist[i].calls) + Starts(hist[i + 1].calls) = 1
                 /\ hist[i].res = "ok" /\ hist[i + 1].res = "ok"
                 /\ hist[i].scanning /\ hist[i + 1].scanning
        /\ (hist[i].done /\ hist[i].op = "StopDiscovery" /\ hist[i].idle)
              => /\ hist[i].calls = <<>>
                 /\ hist[i].res = "ok"
                 /\ ~hist[i].scanning

\* C4 witness: two StartDiscovery calls in a row from Idle, the first one
\* having started the scan on the bus.
C4_Witness ==
    /\ Len(hist) = 2 /\ hist[2].done
    /\ hist[1].op = "StartDiscovery" /\ hist[2].op = "StartDiscovery"
    /\ hist[1].idle /\ hist[1].powered /\ AllOk(hist[1].calls)
    /\ Starts(hist[1].calls) = 1 /\ hist[2].calls = <<>>
    /\ IsScanning /\ adapter.Discovering

\* C4 witness of the other case: StopDiscovery has returned from an Idle
\* session that an earlier scan had left.
C4_WitnessStop ==
    /\ Len(hist) = 3 /\ hist[3].done
    /\ hist[3].op = "StopDiscovery" /\ hist[3].idle
    /\ hist[2].op = "StopDiscovery" /\ ~hist[2].idle
    /\ ~IsScanning

----------------------------------------------------------------------------
(* Properties of the merge *)

(* The keys that report an attribute, and the type a value must have. *)
KeysOf(attr) == IF attr = "Name" THEN {"Name", "Alias"} ELSE {attr}

TypeOf(attr) ==
    CASE attr \in {"Address", "Name", "Icon"} -> "s"
      [] attr \in {"Paired", "Connected", "Trusted"} -> "b"
      [] attr = "RSSI" -> "n"

Reported(props, attr) ==
    \E k \in KeysOf(attr) \cap DOMAIN props : props[k].t = TypeOf(attr)

\* C11: applying a property set to an existing Device leaves unchanged
\* every attribute that no key of the set reports with a well-typed value
\* (the key is absent or its value has the wrong type; the Name attribute is
\* reported by the keys Name and Alias): only attributes reported with a
\* well-typed value change.
C11_Frame ==
    (stage >= 1 /\ th["api"].pc = "idle" /\ input.path \in DOMAIN th["api"].pre)
        => \A attr \in DOMAIN ZeroDevice :
             ~Reported(input.props, attr)
                => Dev(input.path)[attr] = th["api"].pre[input.path][attr]

\* C11 witness: a set with one well-typed and one wrongly typed value has
\* been applied to an existing device and changed it.
C11_Witness ==
    /\ stage = 1 /\ th["api"].pc = "idle"
    /\ input.path \in DOMAIN th["api"].pre
    /\ Dev(input.path) # th["api"].pre[input.path]
    /\ "Paired" \in DOMAIN input.props /\ input.props["Paired"].t = "s"
    /\ "Connected" \in DOMAIN input.props /\ input.props["Connected"].t = "b"
    /\ Dev(input.path).Paired

----------------------------------------------------------------------------
(* Properties of the discovery session *)

(* The power check of a StartDiscovery failed, lines 420-427, or its        *)
(* StartDiscovery bus call did, lines 436-443.                               *)
StartFailed(calls) ==
    /\ calls # <<>>
    /\ calls[Len(calls)].m \in {"Get Powered", "Set Powered", "rfkill", "StartDiscovery"}
    /\ ~calls[Len(calls)].ok

\* C12: IsScanning() returns true only after a StartDiscovery bus call has
\* returned success and before the next StopDiscovery; a StartDiscovery
\* whose power check or bus call fails returns the error and leaves the
\* session Idle, and no observer has seen Scanning during it.
C12_ScanningOnlyAfterStart ==
    \A i \in 1..Len(hist) :
        /\ hist[i].seen # "early"
        /\ (hist[i].done /\ hist[i].op = "StartDiscovery" /\ StartFailed(hist[i].calls))
              => /\ hist[i].res = "failed"
                 /\ ~hist[i].scanning
                 /\ hist[i].seen \in {"none", "idle"}

\* C12, the part the code keeps: a StartDiscovery whose power check or bus
\* call fails returns the error and has left the session Idle.
C12_FailedStartIsIdle ==
    \A i \in 1..Len(hist) :
        (hist[i].done /\ hist[i].op = "StartDiscovery" /\ StartFailed(hist[i].calls))
            => hist[i].res = "failed" /\ ~hist[i].scanning

\* C12: an observer has read Scanning during a StartDiscovery that failed.
C12_SeenDuringFailedStart ==
    \E i \in 1..Len(hist) :
        /\ hist[i].done /\ hist[i].op = "StartDiscovery"
        /\ StartFailed(hist[i].calls) /\ hist[i].res = "failed"
        /\ hist[i].seen = "early"

NotActive == {"org.bluez.Error.Failed", "org.bluez.Error.NotReady"}

\* C13: StopDiscovery called while Scanning issues exactly one bus call,
\* StopDiscovery, and leaves the session Idle whatever the bus answers; it
\* returns success when the call succeeds or the bus answers with one of the
\* "discovery was not active" errors, and an error for any other failure.
C13_StopLenient ==
    \A i \in 1..Len(hist) :
        (hist[i].done /\ hist[i].op = "StopDiscovery" /\ ~hist[i].idle)
            => /\ Len(hist[i].calls) = 1
               /\ hist[i].calls[1].m = "StopDiscovery"
               /\ ~hist[i].scanning
               /\ hist[i].res = "ok"
                    <=> (hist[i].calls[1].ok \/ hist[i].calls[1].err \in NotActive)
               /\ hist[i].res \in {"ok", "failed"}

\* C13 witness: a StopDiscovery of a running scan has returned success on a
\* "not active" error of the bus, and the session is Idle.
C13_Witness ==
    /\ Len(hist) = 2 /\ hist[2].done
    /\ hist[1].op = "StartDiscovery" /\ hist[1].res = "ok"
    /\ hist[2].op = "StopDiscovery" /\ ~hist[2].idle
    /\ hist[2].calls = <<[m |-> "StopDiscovery", ok |-> FALSE,
                          err |-> "org.bluez.Error.Failed"]>>
    /\ hist[2].res = "ok" /\ ~IsScanning

\* C13 witness of the other case: the bus refused with another error, the
\* call returned it and the session is Idle all the same.
C13_WitnessError ==
    /\ Len(hist) = 2 /\ hist[2].done
    /\ hist[2].op = "StopDiscovery" /\ ~hist[2].idle
    /\ hist[2].calls[1].err = "other"
    /\ hist[2].res = "failed" /\ ~IsScanning

----------------------------------------------------------------------------
(* Properties of commands beside the notification worker *)

\* C14: when Remove of a device the registry holds succeeds on the bus and
\* the object-removed notification of that removal is handled by the worker
\* beside it, in either order, nothing else acting on the bus meanwhile and
\* a registry-changed handler being registered: the entry is gone, at most
\* one registry-changed signal has been dispatched at any moment and exactly
\* one once both have been processed, and Remove reports no error whether it
\* came first or second.
C14_RemoveOnce ==
    LET tr == th["cmd"] IN
    (/\ Returning("remove") /\ tr.quiet /\ onChange # Nil
     /\ tr.path \in DOMAIN tr.pre
     /\ tr.calls = <<[m |-> "RemoveDevice", ok |-> TRUE]>>)
        => /\ tr.res = "ok"
           /\ tr.path \notin DOMAIN devices
           /\ Count(tr.heard, "change") <= 1
           /\ Settled => Count(tr.heard, "change") = 1

\* C14 witness: the worker handled the object-removed notification first
\* and dispatched the signal; Remove found the entry gone, dispatched
\* nothing and is returning success.
C14_Witness ==
    LET tr == th["cmd"] IN
    /\ Returning("remove") /\ tr.quiet /\ onChange # Nil
    /\ tr.path \in DOMAIN tr.pre
    /\ tr.calls = <<[m |-> "RemoveDevice", ok |-> TRUE]>>
    /\ Settled /\ tr.res = "ok"
    /\ tr.sent = <<>> /\ Count(tr.heard, "change") = 1

\* C14 witness of the other order: Remove deleted the entry and dispatched
\* the signal, and the worker found nothing to remove.
C14_WitnessRemoveFirst ==
    LET tr == th["cmd"] IN
    /\ Returning("remove") /\ tr.quiet /\ onChange # Nil
    /\ tr.path \in DOMAIN tr.pre
    /\ tr.calls = <<[m |-> "RemoveDevice", ok |-> TRUE]>>
    /\ Settled /\ tr.res = "ok"
    /\ Count(tr.sent, "change") = 1 /\ Count(tr.heard, "change") = 1

(* A command's refresh and the worker's property-changed notification for   *)
(* the same device are both about to be applied.                             *)
RefreshRacesNotification ==
    /\ th["cmd"].pc = "upd" /\ th["cmd"].src = "refresh"
    /\ th["worker"].pc = "upd" /\ th["worker"].src = "PropertiesChanged"
    /\ th["worker"].path = th["cmd"].path
    /\ th["cmd"].path \in DOMAIN devices

\* C15: when a command's forced refresh and a property-changed notification
\* for the same path are both about to be applied to a device, applying the
\* refresh first and the notification second leaves the same Device record
\* as applying them the other way round.
C15_OrderIrrelevant ==
    RefreshRacesNotification
        => LET d == Dev(th["cmd"].path)
               R == th["cmd"].props
               N == th["worker"].props
           IN  \A oR \in Orders(R), oN \in Orders(N) :
                 ApplyProps(ApplyProps(d, R, oR), N, oN)
                    = ApplyProps(ApplyProps(d, N, oN), R, oR)

\* C15: a refresh read before the device connected was applied after the
\* notification of the connection: nothing is in flight any more and the
\* registry says the device is not connected, while the bus says it is.
C15_StaleRefreshWon ==
    LET tr == th["cmd"] IN
    /\ Returning("trust") /\ Settled /\ pending = <<>>
    /\ Methods(tr.calls) = <<"Set Trusted", "GetAll">> /\ AllOk(tr.calls)
    /\ tr.path \in DOMAIN devices
    /\ bus[tr.path].Connected /\ ~Dev(tr.path).Connected

\* C15: the same race, the notification applied last: the registry agrees
\* with the bus.
C15_NotificationWon ==
    LET tr == th["cmd"] IN
    /\ Returning("trust") /\ Settled /\ pending = <<>>
    /\ Methods(tr.calls) = <<"Set Trusted", "GetAll">> /\ AllOk(tr.calls)
    /\ tr.path \in DOMAIN devices /\ tr.path \in DOMAIN tr.pre
    /\ ~tr.pre[tr.path].Connected
    /\ Count(tr.heard, "change") = 2
    /\ bus[tr.path].Connected /\ Dev(tr.path).Connected

----------------------------------------------------------------------------
(* SpecBlock: the engine with handlers that never return.  The scheduler     *)
(* runs every goroutine that can take a step: the worker, the command's      *)
(* caller and the goroutines started for the handlers.                       *)

WorkerStep ==
    \/ Receive
    \/ UpdLocked("worker")
    \/ UpdNotify("worker")
    \/ RmLocked("worker")
    \/ RmNotify("worker")

CmdStep ==
    \/ UpdLocked("cmd")
    \/ UpdNotify("cmd")
    \/ ConnectBegin("cmd")
    \/ CmdCall("cmd")
    \/ Refresh("cmd")
    \/ CmdOk("cmd")
    \/ RemoveCall("cmd")
    \/ RemoveLocked("cmd")
    \/ RemoveNotify("cmd")
    \/ CmdReturn("cmd")

(* The engine once the application has registered both handlers. *)
InitBlock ==
    /\ bus \in {b \in [BusPaths -> {NoObject, [NoObject EXCEPT !.dev = TRUE]}] :
                  b[Foreign].dev}
    /\ devices = [p \in Loaded(bus) |-> 1]
    /\ heap = [i \in Ids |->
                 IF i = 1 /\ Loaded(bus) # {}
                 THEN ApplyProps(ZeroDevice, FullProps(bus[P1], P1),
                                 InOrder(KeyOrder, DOMAIN FullProps(bus[P1], P1)))
                 ELSE ZeroDevice]
    /\ origin = [p \in DOMAIN devices |-> "load"]
    /\ onChange = "h1"
    /\ onConnect = "h2"
    /\ th = [t \in Threads |-> IdleThread]
    /\ pending = <<>>
    /\ held = NoSnapshot
    /\ queue = <<>>
    /\ nEv = 0
    /\ input = [path |-> Empty, props |-> NoProps]
    /\ stage = 0
    /\ call = NoCall
    /\ slots = MaxPending
    /\ after1 = ZeroDevice
    /\ NoDiscovery
    /\ nOps = 0

NextBlock ==
    \/ BusVanish
    \/ BusConnectedChange
    \/ StartCmd
    \/ WorkerStep
    \/ CmdStep
    \/ HandlerBlocks

SpecBlock ==
    /\ InitBlock /\ [][NextBlock]_vars
    /\ WF_vars(WorkerStep) /\ WF_vars(CmdStep) /\ WF_vars(HandlerBlocks)

\* C16: the handlers are started as goroutines, so with handlers that never
\* return no thread of the engine is ever inside a handler, every
\* notification in the channel is eventually handled by the worker and
\* every command begun eventually returns to its caller.
C16_BlockedHandlerHarmless ==
    /\ [](\A t \in Threads : th[t].pc # "in_handler")
    /\ (queue # <<>>) ~> Settled
    /\ (th["cmd"].pc # "idle") ~> (th["cmd"].pc = "cmd_ret")

\* C16 witness: the handler of the signal a command dispatched has been
\* invoked and never returns, a device-connected signal was dispatched as
\* well, and the command is returning success to its caller.
C16_Witness ==
    LET tr == th["cmd"] IN
    /\ held = Blocked /\ pending = <<>>
    /\ Returning("connect") /\ tr.res = "ok"
    /\ Count(tr.sent, "change") >= 1 /\ Count(tr.sent, "connect") = 1

\* C16 witness of the worker: a handler is blocked, and the worker has
\* taken the next notification from the channel and applied it.
C16_WitnessWorker ==
    /\ held = Blocked /\ pending = <<>> /\ nEv = 2
    /\ th["worker"].pc = "upd_notify" /\ th["worker"].src = "PropertiesChanged"
    /\ onChange # Nil

----------------------------------------------------------------------------
(* Properties of what the signals carry *)

(* The thread t has left its section under the lock and is about to         *)
(* evaluate GetDevices() for the registry-changed signal it dispatches.      *)
AboutToSnapshot(t) ==
    \/ th[t].pc = "upd_notify" /\ onChange # Nil
    \/ th[t].pc = "rm_notify" /\ NotifiesRemoval(th[t].exists, th[t].hnd)
    \/ th[t].pc = "remove_notify" /\ RemoveNotifies(th[t].exists, th[t].hnd)

Contents(view) == {view[p] : p \in DOMAIN view}

\* C17: the snapshot a registry-changed signal carries equals the registry
\* contents at the instant the apply or remove that triggers it completed
\* under the lock, under any interleaving with other mutations: whenever a
\* thread is about to take the snapshot, every snapshot GetDevices() can
\* return holds exactly the devices the registry held when the thread left
\* its locked section.
C17_SnapshotOfMutation ==
    \A t \in EngineThreads :
        AboutToSnapshot(t)
            => \A snap \in GetDevices :
                 /\ Len(snap) = Cardinality(DOMAIN th[t].at)
                 /\ {heap[snap[i]] : i \in 1..Len(snap)} = Contents(th[t].at)

\* C17: a command's refresh applied a device and released the lock; before
\* it evaluates GetDevices() the worker removed the device, so the snapshot
\* of the signal for the application is empty.
C17_RemovedBeforeSnapshot ==
    LET tr == th["cmd"] IN
    /\ tr.pc = "upd_notify" /\ onChange # Nil
    /\ tr.path \in DOMAIN tr.at
    /\ DOMAIN devices = {}

\* C18: the Device a device-connected handler is given keeps the values
\* the device had at the moment of the edge: whatever is applied to the
\* device or removed after the edge, a signal waiting for its goroutine and
\* a handler that holds its argument read those values.
C18_ConnectCopy ==
    /\ \A i \in 1..Len(pending) :
          pending[i].kind = "connect"
              => Deref(pending[i]) = pending[i].dev /\ pending[i].dev.Connected
    /\ held.from = "onConnect"
          => Deref(held.given) = held.given.dev /\ held.given.dev.Connected

\* C18 witness: a handler holds the Device of a connection, and the device
\* has since been applied Connected=false in the registry.
C18_Witness ==
    /\ held.from = "onConnect" /\ Deref(held.given).Connected
    /\ \E p \in DOMAIN devices :
          /\ Dev(p).Address = held.given.dev.Address
          /\ Dev(p).Name = held.given.dev.Name
          /\ ~Dev(p).Connected
    /\ th["api"].pc = "idle" /\ th["api"].op = "upd"

\* C18 witness of a removal: a handler holds the Device of a connection and
\* the registry is empty.
C18_WitnessRemoved ==
    /\ held.from = "onConnect" /\ Deref(held.given).Connected
    /\ DOMAIN devices = {}
    /\ th["api"].pc = "idle" /\ th["api"].op = "rm"

----------------------------------------------------------------------------
(* Properties of the commands' bus calls *)

OkGetAlls(calls) ==
    Cardinality({i \in 1..Len(calls) : calls[i].m = "GetAll" /\ calls[i].ok})

CallOf(op) ==
    CASE op = "trust" -> "Set Trusted"
      [] op = "pair" -> "Pair"
      [] op = "connect" -> "Connect"
      [] op = "disconnect" -> "Disconnect"

(* The command's own bus call succeeded and the GetAll after it failed. *)
RefreshFailedAfterCall(tr) ==
    /\ tr.op \in {"trust", "pair", "connect", "disconnect"}
    /\ Len(tr.calls) >= 2
    /\ tr.calls[Len(tr.calls)] = [m |-> "GetAll", ok |-> FALSE]
    /\ tr.calls[Len(tr.calls) - 1] = [m |-> CallOf(tr.op), ok |-> TRUE]

\* C19: when the bus call of Trust, Pair, Connect or Disconnect succeeds and
\* the GetAll of the refresh that follows fails, the command returns
\* success and the failed refresh has dispatched no signal and changed
\* nothing: the command has dispatched a registry-changed signal for each
\* GetAll that succeeded at most (the refresh of the Trust inside Connect),
\* and when nobody else has applied anything the registry is as the
\* command found it.
C19_RefreshFailureIsSilent ==
    LET tr == th["cmd"] IN
    (th["cmd"].pc = "cmd_ret" /\ RefreshFailedAfterCall(tr))
        => /\ tr.res = "ok"
           /\ Count(tr.sent, "change") <= OkGetAlls(tr.calls)
           /\ OkGetAlls(tr.calls) = 0 => tr.sent = <<>>
           /\ (/\ OkGetAlls(tr.calls) = 0 /\ tr.quiet /\ onChange # Nil
               /\ tr.heard = <<>> /\ th["worker"].pc \in {"idle", "upd"})
                 => View = tr.pre

\* C19 witness: Pair succeeded on the bus, the GetAll of its refresh
\* failed, and Pair is returning success with the registry as it was (the
\* device still unpaired there) and no signal dispatched, a registry-changed
\* handler being registered.
C19_Witness ==
    LET tr == th["cmd"] IN
    /\ Returning("pair") /\ RefreshFailedAfterCall(tr)
    /\ tr.res = "ok" /\ tr.quiet /\ onChange # Nil
    /\ tr.sent = <<>> /\ tr.heard = <<>> /\ th["worker"].pc = "idle"
    /\ tr.path \in DOMAIN devices /\ View = tr.pre
    /\ bus[tr.path].Paired /\ ~Dev(tr.path).Paired

Positions(calls, method) == {i \in 1..Len(calls) : calls[i].m = method}

\* C20: Connect issues the Trusted=true bus call first and the Connect bus
\* call after it, once each, whether or not the trust call succeeded, and
\* its result is success exactly when the Connect bus call succeeded.
C20_ConnectAfterTrust ==
    LET tr == th["cmd"] IN
    Returning("connect")
        => /\ Positions(tr.calls, "Set Trusted") = {1}
           /\ Cardinality(Positions(tr.calls, "Connect")) = 1
           /\ \A i \in Positions(tr.calls, "Connect") :
                 /\ i > 1
                 /\ tr.res = "ok" <=> tr.calls[i].ok
           /\ tr.res \in {"ok", "failed"}

\* C20 witness: the trust call failed, the Connect call was issued all the
\* same and succeeded, and Connect is returning success.
C20_Witness ==
    LET tr == th["cmd"] IN
    /\ Returning("connect") /\ tr.res = "ok"
    /\ Methods(tr.calls) = <<"Set Trusted", "Connect", "GetAll">>
    /\ ~tr.calls[1].ok /\ tr.calls[2].ok
    /\ bus[tr.path].Connected /\ ~bus[tr.path].Trusted

\* C20 witness of a failure: the trust call succeeded, the Connect call
\* failed, and Connect is returning the error.
C20_WitnessFailed ==
    LET tr == th["cmd"] IN
    /\ Returning("connect") /\ tr.res = "failed"
    /\ Methods(tr.calls) = <<"Set Trusted", "GetAll", "Connect">>
    /\ tr.calls[1].ok /\ ~tr.calls[3].ok

----------------------------------------------------------------------------
(* Properties of ensurePoweredOn, as StartDiscovery runs it *)

(* The i-th discovery call was a StartDiscovery of an Idle session that has  *)
(* returned, so it ran ensurePoweredOn, and the adapter answered the read of *)
(* Powered.                                                                  *)
RanPowerCheck(i) ==
    /\ hist[i].done /\ hist[i].op = "StartDiscovery" /\ hist[i].idle
    /\ hist[i].calls # <<>>
    /\ hist[i].calls[1] = [m |-> "Get Powered", ok |-> TRUE]

FirstPowerOnFailed(i) ==
    /\ RanPowerCheck(i) /\ ~hist[i].powered
    /\ Len(hist[i].calls) >= 2
    /\ hist[i].calls[2] = [m |-> "Set Powered", ok |-> FALSE]

\* C21: ensurePoweredOn issues no power-on call when the adapter reports
\* Powered=true; when the adapter is off and the first power-on call fails
\* it attempts the rfkill unblock and then issues the power-on call exactly
\* one more time, and returns an error when that retry fails.
C21_PowerOnRetriedOnce ==
    \A i \in 1..Len(hist) :
        /\ (RanPowerCheck(i) /\ hist[i].powered)
              => Positions(hist[i].calls, "Set Powered") = {}
        /\ FirstPowerOnFailed(i)
              => /\ Positions(hist[i].calls, "rfkill") = {3}
                 /\ Positions(hist[i].calls, "Set Powered") = {2, 4}
                 /\ ~hist[i].calls[4].ok => hist[i].res = "failed"

\* C21, what the code does: no power-on call for a powered adapter; after a
\* failed first power-on call the unblock is attempted once, the power-on
\* call is issued once more only when the unblock reported no error, and
\* ensurePoweredOn fails when the unblock or the retry failed.
C21_RetryOnlyAfterUnblock ==
    \A i \in 1..Len(hist) :
        /\ (RanPowerCheck(i) /\ hist[i].powered)
              => Positions(hist[i].calls, "Set Powered") = {}
        /\ FirstPowerOnFailed(i)
              => /\ Positions(hist[i].calls, "rfkill") = {3}
                 /\ hist[i].calls[3].ok
                       => /\ Positions(hist[i].calls, "Set Powered") = {2, 4}
                          /\ ~hist[i].calls[4].ok => hist[i].res = "failed"
                 /\ ~hist[i].calls[3].ok
                       => /\ Positions(hist[i].calls, "Set Powered") = {2}
                          /\ hist[i].res = "failed"

\* C21: the first power-on call failed, the unblock failed, and
\* StartDiscovery has returned the error after a single power-on call.
C21_NoRetry ==
    \E i \in 1..Len(hist) :
        /\ FirstPowerOnFailed(i)
        /\ Methods(hist[i].calls) = <<"Get Powered", "Set Powered", "rfkill">>
        /\ hist[i].res = "failed"

\* C21: the unblock reported no error and the retry powered the adapter.
C21_Retried ==
    \E i \in 1..Len(hist) :
        /\ FirstPowerOnFailed(i)
        /\ hist[i].calls[3].ok /\ hist[i].calls[4].ok
        /\ adapter.Powered

----------------------------------------------------------------------------
(* SpecNew: NewAdapter, from nothing to an engine or an error, beside a bus  *)
(* whose device changes.  The adapter record holds, beside Powered: whether  *)
(* BlueZ exposes an adapter object (present), the bus connection (none,      *)
(* open, closed) and whether the signals are subscribed and the worker       *)
(* started (subs).                                                           *)

InitNew ==
    /\ bus \in {b \in [BusPaths -> {NoObject, [NoObject EXCEPT !.dev = TRUE]}] :
                  b[Foreign].dev}
    /\ devices = [p \in {} |-> 1]
    /\ heap = [i \in Ids |-> ZeroDevice]
    /\ origin = [p \in {} |-> "load"]
    /\ onChange = Nil
    /\ onConnect = Nil
    /\ th = [t \in Threads |-> IdleThread]
    /\ pending = <<>>
    /\ held = NoSnapshot
    /\ queue = <<>>
    /\ nEv = 0
    /\ input = [path |-> Empty, props |-> NoProps]
    /\ stage = 0
    /\ call = NoCall
    /\ slots = MaxPending
    /\ after1 = ZeroDevice
    /\ nOps = 0
    /\ scanning = FALSE
    /\ adapter \in [Powered : BOOLEAN, Discovering : {FALSE}, present : BOOLEAN,
                     conn : {"none"}, subs : {FALSE}]
    /\ hist = <<>>

(* The application calls NewAdapter(). *)
CallNewAdapter ==
    /\ th["cmd"].pc = "idle" /\ nOps = 0
    /\ th' = [th EXCEPT !["cmd"] =
                [Call("cmd", "NewAdapter", Empty, NoProps)
                    EXCEPT !.pc = "new", !.stack = <<"new_ret">>]]
    /\ nOps' = 1
    /\ UNCHANGED <<devices, heap, onChange, onConnect, pending, held, origin,
                   env, drv>>

(* Lines 85-88: dbus.ConnectSystemBus(). *)
NewConnect(t) ==
    /\ th[t].pc = "new"
    /\ \E ok \in BOOLEAN :
         LET tr == Issued(th[t], "ConnectSystemBus", ok)
         IN  /\ adapter' = IF ok THEN [adapter EXCEPT !.conn = "open"] ELSE adapter
             /\ th' = [th EXCEPT ![t] =
                         IF ok THEN [tr EXCEPT !.pc = "find"]
                         ELSE Ret([tr EXCEPT !.res = "failed"])]
    /\ UNCHANGED <<devices, heap, onChange, onConnect, pending, held, origin,
                   env, input, stage, after1, call, slots, nOps, scanning, hist>>

(* findAdapter, lines 205-221, and lines 97-102 of NewAdapter. *)
FindAdapter(t) ==
    /\ th[t].pc = "find"
    /\ \E ok \in BOOLEAN :
         LET tr == Issued(th[t], "GetManagedObjects", ok)
         IN  th' = [th EXCEPT ![t] =
                      IF ok /\ adapter.present THEN [tr EXCEPT !.pc = "power_get"]
                      ELSE [tr EXCEPT !.pc = "new_abort"]]
    /\ UNCHANGED <<devices, heap, onChange, onConnect, pending, held, origin,
                   env, drv, nOps>>

(* Lines 98-100 and 110-113: conn.Close() and return nil, err. *)
NewAbort(t) ==
    /\ th[t].pc = "new_abort"
    /\ adapter' = [adapter EXCEPT !.conn = "closed"]
    /\ th' = [th EXCEPT ![t] = Ret([th[t] EXCEPT !.res = "failed"])]
    /\ UNCHANGED <<devices, heap, onChange, onConnect, pending, held, origin,
                   env, input, stage, after1, call, slots, nOps, scanning, hist>>

(* setupSignals, lines 224-254: the two match rules are added, then the      *)
(* channel is registered and the worker started; NewAdapter goes on to       *)
(* loadExistingDevices, line 116.                                            *)
Subscribe(t) ==
    /\ th[t].pc \in {"match_om", "match_props"}
    /\ \E ok \in BOOLEAN :
         LET tr == Issued(th[t], "AddMatchSignal", ok)
             last == tr.pc = "match_props"
         IN  /\ adapter' = IF ok /\ last THEN [adapter EXCEPT !.subs = TRUE] ELSE adapter
             /\ th' = [th EXCEPT ![t] =
                         IF ~ok THEN [tr EXCEPT !.pc = "new_abort"]
                         ELSE IF last
                              THEN [tr EXCEPT !.pc = "load", !.stack = <<"new_ok">> \o @]
                         ELSE [tr EXCEPT !.pc = "match_props"]]
    /\ UNCHANGED <<devices, heap, onChange, onConnect, pending, held, origin,
                   env, input, stage, after1, call, slots, nOps, scanning, hist>>

(* Line 118: return adapter, nil. *)
NewOk(t) ==
    /\ th[t].pc = "new_ok"
    /\ th' = [th EXCEPT ![t] = Ret([th[t] EXCEPT !.res = "ok"])]
    /\ UNCHANGED <<devices, heap, onChange, onConnect, pending, held, origin,
                   env, drv, nOps>>

(* A device connects or disconnects while NewAdapter or Close runs; BlueZ's *)
(* notification reaches the channel of this process only while it is         *)
(* subscribed on an open connection.                                         *)
BusChangeAtStartup ==
    /\ CanHappen
    /\ \E p \in DevicePaths :
         /\ bus[p].dev
         /\ bus' = [bus EXCEPT ![p].Connected = ~@]
         /\ queue' = IF adapter.subs /\ adapter.conn = "open"
                      THEN Append(queue, Changed(p, bluezDeviceIface,
                                    [k \in {"Connected"} |-> VB(~bus[p].Connected)]))
                      ELSE queue
    /\ nEv' = nEv + 1
    /\ th' = Disturbed
    /\ UNCHANGED <<devices, heap, onChange, onConnect, pending, held, origin,
                   drv, nOps>>

NextNew ==
    \/ CallNewAdapter
    \/ NewConnect("cmd")
    \/ FindAdapter("cmd")
    \/ NewAbort("cmd")
    \/ PowerGet("cmd")
    \/ PowerSet("cmd")
    \/ Rfkill("cmd")
    \/ Subscribe("cmd")
    \/ LoadCall("cmd")
    \/ LoadLoop("cmd")
    \/ NewOk("cmd")
    \/ \E t \in EngineThreads : UpdLocked(t)
    \/ \E t \in EngineThreads : UpdNotify(t)
    \/ BusChangeAtStartup
    \/ Receive

SpecNew == InitNew /\ [][NextNew]_vars

(* NewAdapter is returning to its caller. *)
NewReturning == th["cmd"].pc = "new_ret" /\ th["cmd"].op = "NewAdapter"

(* A call of the given name was issued and failed. *)
Failed(calls, method) == \E i \in Positions(calls, method) : ~calls[i].ok

(* ensurePoweredOn returned an error. *)
PowerCheckFailed(calls) ==
    \/ Failed(calls, "Get Powered")
    \/ Failed(calls, "rfkill")
    \/ \E i \in Positions(calls, "Set Powered") :
          ~calls[i].ok /\ (i = Len(calls) \/ calls[i + 1].m # "rfkill")

(* The bus was unreachable, no adapter was found, or subscribing failed. *)
StartupFailed(calls) ==
    \/ Failed(calls, "ConnectSystemBus")
    \/ Positions(calls, "GetManagedObjects") # {}
         /\ (~calls[2].ok \/ ~adapter.present)
    \/ Failed(calls, "AddMatchSignal")

\* C22: NewAdapter returns no engine exactly when the bus is unreachable,
\* when no object exposes the adapter interface (or the objects cannot be
\* read), or when subscribing fails, and then the connection it opened, if
\* any, is closed; otherwise, also when powering the adapter failed, the
\* engine is returned with the connection open, subscribed, and with the
\* bulk load run after the subscription.
C22_StartupFailures ==
    LET tr == th["cmd"] IN
    NewReturning
        => /\ tr.res = "failed" <=> StartupFailed(tr.calls)
           /\ tr.res \in {"ok", "failed"}
           /\ tr.res = "failed"
                => /\ adapter.conn = (IF Failed(tr.calls, "ConnectSystemBus")
                                      THEN "none" ELSE "closed")
                   /\ ~adapter.subs /\ devices = [p \in {} |-> 1]
           /\ tr.res = "ok"
                => /\ adapter.conn = "open" /\ adapter.subs
                   /\ Cardinality(Positions(tr.calls, "AddMatchSignal")) = 2
                   /\ tr.calls[Len(tr.calls)].m = "GetManagedObjects"
                   /\ (tr.calls[Len(tr.calls)].ok /\ tr.quiet)
                         => DOMAIN devices = Loaded(bus)

\* C22 witness: powering the adapter failed and NewAdapter is returning the
\* engine all the same, subscribed and with the device of the bus loaded.
C22_Witness ==
    LET tr == th["cmd"] IN
    /\ NewReturning /\ tr.res = "ok" /\ tr.quiet
    /\ PowerCheckFailed(tr.calls) /\ ~adapter.Powered
    /\ adapter.conn = "open" /\ adapter.subs
    /\ DOMAIN devices = {P1}

\* C22 witness of an abort: subscribing failed on the second match rule,
\* the connection is closed and no engine is returned.
C22_WitnessAbort ==
    LET tr == th["cmd"] IN
    /\ NewReturning /\ tr.res = "failed"
    /\ Cardinality(Positions(tr.calls, "AddMatchSignal")) = 2
    /\ adapter.conn = "closed"

\* C22 witness of the subscription: a notification emitted during the bulk
\* load has been applied by the worker of the engine returned.
C22_WitnessSubscribed ==
    /\ NewReturning /\ th["cmd"].res = "ok"
    /\ nEv > 0 /\ Settled
    /\ \E p \in DOMAIN devices : origin[p] = "PropertiesChanged"

----------------------------------------------------------------------------
(* SpecClose: Close on a running engine, beside the worker and the bus.  The *)
(* adapter record also holds whether a.stopSignals has been closed (stop).   *)

InitClose ==
    /\ bus \in {b \in [BusPaths -> {NoObject, [NoObject EXCEPT !.dev = TRUE]}] :
                  b[Foreign].dev}
    /\ devices = [p \in Loaded(bus) |-> 1]
    /\ heap = [i \in Ids |->
                 IF i = 1 /\ Loaded(bus) # {}
                 THEN ApplyProps(ZeroDevice, FullProps(bus[P1], P1),
                                 InOrder(KeyOrder, DOMAIN FullProps(bus[P1], P1)))
                 ELSE ZeroDevice]
    /\ origin = [p \in DOMAIN devices |-> "load"]
    /\ onChange = Nil
    /\ onConnect = Nil
    /\ th = [t \in Threads |-> IdleThread]
    /\ pending = <<>>
    /\ held = NoSnapshot
    /\ queue = <<>>
    /\ nEv = 0
    /\ input = [path |-> Empty, props |-> NoProps]
    /\ stage = 0
    /\ call = NoCall
    /\ slots = MaxPending
    /\ after1 = ZeroDevice
    /\ nOps = 0
    /\ scanning \in BOOLEAN
    /\ adapter = [Powered |-> TRUE, Discovering |-> scanning, present |-> TRUE,
                  conn |-> "open", subs |-> TRUE, stop |-> FALSE]
    /\ hist = <<>>

(* Close, lines 669-671: a.StopDiscovery() is called first. *)
CallClose ==
    /\ th["cmd"].pc = "idle" /\ nOps = 0
    /\ th' = [th EXCEPT !["cmd"] =
                [Call("cmd", "Close", Empty, NoProps)
                    EXCEPT !.pc = "stop", !.stack = <<"close_signal", "close_ret">>]]
    /\ nOps' = 1
    /\ UNCHANGED <<devices, heap, onChange, onConnect, pending, held, origin,
                   env, drv>>

(* Line 673: close(a.stopSignals). *)
CloseSignal(t) ==
    /\ th[t].pc = "close_signal"
    /\ adapter' = [adapter EXCEPT !.stop = TRUE]
    /\ th' = [th EXCEPT ![t] = [Issued(th[t], "close stopSignals", TRUE)
                                   EXCEPT !.pc = "close_conn"]]
    /\ UNCHANGED <<devices, heap, onChange, onConnect, pending, held, origin,
                   env, input, stage, after1, call, slots, nOps, scanning, hist>>

(* Lines 675-677: a.conn.Close(), and Close returns its error. *)
CloseConn(t) ==
    /\ th[t].pc = "close_conn"
    /\ \E ok \in BOOLEAN :
         th' = [th EXCEPT ![t] =
                  Ret([Issued(th[t], "conn.Close", ok)
                          EXCEPT !.res = IF ok THEN "ok" ELSE "failed"])]
    /\ adapter' = [adapter EXCEPT !.conn = "closed"]
    /\ UNCHANGED <<devices, heap, onChange, onConnect, pending, held, origin,
                   env, input, stage, after1, call, slots, nOps, scanning, hist>>

(* The worker's select, lines 241-245: a.stopSignals is closed, so the       *)
(* worker removes the subscription and ends.  When a notification is ready   *)
(* as well, select takes either case.                                        *)
WorkerStop ==
    /\ th["worker"].pc = "idle"
    /\ adapter.stop
    /\ adapter' = [adapter EXCEPT !.subs = FALSE]
    /\ th' = [th EXCEPT !["worker"] = [IdleThread EXCEPT !.pc = "exited"]]
    /\ UNCHANGED <<devices, heap, onChange, onConnect, pending, held, origin,
                   env, input, stage, after1, call, slots, nOps, scanning, hist>>

NextClose ==
    \/ CallClose
    \/ StopLocked("cmd")
    \/ StopCall("cmd")
    \/ StopClear("cmd")
    \/ CloseSignal("cmd")
    \/ CloseConn("cmd")
    \/ WorkerStop
    \/ BusChangeAtStartup
    \/ Receive
    \/ UpdLocked("worker")
    \/ UpdNotify("worker")

SpecClose == InitClose /\ [][NextClose]_vars

(* Close has returned to its caller. *)
CloseReturned == th["cmd"].pc = "close_ret" /\ th["cmd"].op = "Close"

(* The worker has taken a notification and has yet to apply it. *)
Reconciling == th["worker"].pc \in {"upd", "rm"}

\* C23: Close stops discovery first when it is active, then removes the
\* notification subscription, and releases the bus connection only once the
\* subscription is removed; after Close has returned the session is Idle
\* and the worker reconciles no notification.
C23_CloseOrder ==
    LET tr == th["cmd"] IN
    /\ (tr.op = "Close" /\ Positions(tr.calls, "close stopSignals") # {})
          => /\ ~scanning
             /\ Positions(tr.calls, "StopDiscovery") \subseteq {1}
    /\ adapter.conn = "closed" => ~adapter.subs
    /\ CloseReturned => ~Reconciling

\* C23, the part the code keeps: Close issues the StopDiscovery bus call
\* first when the session is Scanning, closes a.stopSignals after it and
\* the connection last, and the session is Idle from then on.
C23_ProgramOrder ==
    LET tr == th["cmd"] IN
    (tr.op = "Close" /\ CloseReturned)
        => /\ ~scanning
           /\ Methods(tr.calls) \in {<<"StopDiscovery", "close stopSignals", "conn.Close">>,
                                       <<"close stopSignals", "conn.Close">>}
           /\ adapter.conn = "closed" /\ adapter.stop

\* C23: Close has returned and the worker, which had taken a notification
\* from the channel, is about to apply it to the registry.
C23_ReconciledAfterClose ==
    /\ CloseReturned /\ adapter.conn = "closed"
    /\ th["worker"].pc = "upd"

\* C23: the connection is closed while the subscription is still in place,
\* the worker not having reached RemoveSignal.
C23_ClosedWhileSubscribed ==
    /\ adapter.conn = "closed" /\ adapter.subs /\ th["worker"].pc = "idle"

----------------------------------------------------------------------------
(* SpecScan: ScanFor beside plain StartDiscovery and StopDiscovery calls, one *)
(* caller at a time.                                                         *)

(* The application calls ScanFor(ctx, duration), lines 681-683: it starts    *)
(* with StartDiscovery.                                                      *)
CallScanFor ==
    /\ th["cmd"].pc = "idle"
    /\ Len(hist) < MaxDiscCalls
    /\ th' = [th EXCEPT !["cmd"] =
                [Call("cmd", "ScanFor", Empty, NoProps)
                    EXCEPT !.pc = "start", !.stack = <<"scan_started", "disc_ret">>]]
    /\ hist' = Append(hist, [op |-> "ScanFor", idle |-> ~IsScanning,
                             powered |-> adapter.Powered, done |-> FALSE,
                             res |-> "none", calls |-> <<>>, scanning |-> FALSE,
                             seen |-> "none"])
    /\ UNCHANGED <<devices, heap, onChange, onConnect, pending, held, origin,
                   env, input, stage, after1, call, slots, nOps, scanning, adapter>>

(* What ends the select of lines 686-689. *)
Wakeups == {"time.After", "ctx.Done"}

(* A ScanFor that returns at once when its context is cancelled. *)
afterSelect_CancelReturns(why) == IF why = "ctx.Done" THEN "return" ELSE "stop"

(* Line 691: whichever case of the select was taken, StopDiscovery is called *)
(* and its result returned.                                                  *)
afterSelect(why) == "stop"

(* Lines 682-691: the error of StartDiscovery is returned; otherwise the     *)
(* select waits for the duration or the cancellation.                        *)
ScanWait(t) ==
    /\ th[t].pc = "scan_started"
    /\ LET tr == th[t]
       IN  IF tr.res = "failed"
           THEN th' = [th EXCEPT ![t] = Ret(tr)]
           ELSE \E why \in Wakeups :
                  th' = [th EXCEPT ![t] =
                           IF afterSelect(why) = "stop"
                           THEN [Issued(tr, why, TRUE) EXCEPT !.pc = "stop"]
                           ELSE Ret(Issued(tr, why, TRUE))]
    /\ UNCHANGED <<devices, heap, onChange, onConnect, pending, held, origin,
                   env, drv, nOps>>

NextScan ==
    \/ CallScanFor
    \/ CallDiscovery
    \/ ScanWait("cmd")
    \/ StartLocked("cmd")
    \/ PowerGet("cmd")
    \/ PowerSet("cmd")
    \/ Rfkill("cmd")
    \/ StartFail("cmd")
    \/ LoadCall("cmd")
    \/ LoadLoop("cmd")
    \/ UpdLocked("cmd")
    \/ UpdNotify("cmd")
    \/ StartCall("cmd")
    \/ StopLocked("cmd")
    \/ StopCall("cmd")
    \/ StopClear("cmd")
    \/ DiscReturn("cmd")

SpecScan == InitDisc /\ [][NextScan]_vars

(* The select of the i-th call, a ScanFor, was reached: its start succeeded. *)
Waited(i) == \E w \in Wakeups : Positions(hist[i].calls, w) # {}

\* C24: a ScanFor whose start succeeded, whether the duration elapsed or
\* the context was cancelled, has called StopDiscovery after the wait and
\* before returning, so the session is Idle when it returns; a ScanFor whose
\* start failed returns the error without waiting and without a stop call.
C24_ScanForStops ==
    \A i \in 1..Len(hist) :
        (hist[i].done /\ hist[i].op = "ScanFor")
            => LET c == hist[i].calls IN
               /\ ~Waited(i) <=> StartFailed(c)
               /\ Waited(i)
                    => /\ ~hist[i].scanning
                       /\ Len(c) >= 2
                       /\ c[Len(c)].m = "StopDiscovery"
                       /\ c[Len(c) - 1].m \in Wakeups
                       /\ Cardinality(Positions(c, "StopDiscovery")) = 1
               /\ StartFailed(c)
                    => /\ hist[i].res = "failed"
                       /\ ~hist[i].scanning
                       /\ Positions(c, "StopDiscovery") = {}

\* C24 witness: the context of a ScanFor that had started the scan was
\* cancelled, StopDiscovery was called, and ScanFor has returned with the
\* session Idle.
C24_Witness ==
    /\ Len(hist) = 1 /\ hist[1].done /\ hist[1].op = "ScanFor" /\ hist[1].idle
    /\ Positions(hist[1].calls, "StartDiscovery") # {}
    /\ Positions(hist[1].calls, "ctx.Done") # {}
    /\ hist[1].calls[Len(hist[1].calls)] =
          [m |-> "StopDiscovery", ok |-> TRUE, err |-> "ok"]
    /\ ~IsScanning /\ ~adapter.Discovering

\* C24 witness of a failed start: the StartDiscovery bus call failed and
\* ScanFor has returned the error without a stop call.
C24_WitnessFailed ==
    /\ Len(hist) = 1 /\ hist[1].done /\ hist[1].op = "ScanFor"
    /\ hist[1].res = "failed"
    /\ hist[1].calls[Len(hist[1].calls)] = [m |-> "StartDiscovery", ok |-> FALSE]
    /\ ~IsScanning

----------------------------------------------------------------------------
(* Properties of GetDevices and GetPairedDevices *)

(* The call op of thread "api" has just returned the slice now in held. *)
JustReturned(op) ==
    th["api"].pc = "idle" /\ th["api"].op = op /\ held.from = op

(* The slice holds each entry of the registry under paths, once, and nothing *)
(* else, with the values the registry has.                                   *)
ExactlyOnce(paths) ==
    /\ Len(held.ptrs) = Cardinality(paths)
    /\ {held.ptrs[i] : i \in 1..Len(held.ptrs)} = {devices[p] : p \in paths}
    /\ \A i \in 1..Len(held.ptrs) :
          \E p \in paths : devices[p] = held.ptrs[i] /\ held.seen[i] = Dev(p)

\* C25: GetPairedDevices() returns exactly the registry devices with
\* Paired=true or Connected=true, and GetDevices() returns exactly all
\* registry devices, each once.
C25_Queries ==
    /\ JustReturned("GetDevices") => ExactlyOnce(DOMAIN devices)
    /\ JustReturned("GetPairedDevices") =>
          ExactlyOnce({p \in DOMAIN devices : Dev(p).Paired \/ Dev(p).Connected})

\* C25 witness: GetPairedDevices has returned a device that is connected
\* but not paired, and left out a device that is neither.
C25_Witness ==
    /\ JustReturned("GetPairedDevices")
    /\ \E i \in 1..Len(held.seen) : held.seen[i].Connected /\ ~held.seen[i].Paired
    /\ \E p \in DOMAIN devices : ~Dev(p).Paired /\ ~Dev(p).Connected

\* C25 witness for GetDevices: it has returned two devices of which one is
\* neither paired nor connected.
C25_WitnessAll ==
    /\ JustReturned("GetDevices")
    /\ Len(held.seen) = 2
    /\ \E i \in 1..2 : ~held.seen[i].Paired /\ ~held.seen[i].Connected

----------------------------------------------------------------------------
(* SpecHandlers: the application replaces its handlers while the worker      *)
(* reconciles notifications.                                                 *)

(* Lines 122-126: SetOnChange with another handler than the registered one.  *)
ReplaceOnChange ==
    /\ nOps < MaxOps
    /\ \E fn \in Handlers \ {onChange} : SetOnChange("api", fn, "SetOnChange")
    /\ nOps' = nOps + 1

(* Lines 129-133: SetOnConnect with another handler than the registered one. *)
ReplaceOnConnect ==
    /\ nOps < MaxOps
    /\ \E fn \in Handlers \ {onConnect} : SetOnConnect("api", fn, "SetOnConnect")
    /\ nOps' = nOps + 1

NextHandlers ==
    \/ BusAppear
    \/ BusVanish
    \/ BusConnectedChange
    \/ Receive
    \/ UpdLocked("worker")
    \/ UpdNotify("worker")
    \/ RmLocked("worker")
    \/ RmNotify("worker")
    \/ ReplaceOnChange
    \/ ReplaceOnConnect
    \/ RunHandler

SpecHandlers == InitBlock /\ [][NextHandlers]_vars

(* The handler of the kind that the adapter retains. *)
Retained(kind) == IF kind = "change" THEN onChange ELSE onConnect

\* C26: one handler of each kind is retained, and every dispatch of a
\* mutation goes to the handler retained when the dispatch is made: after
\* SetOnChange or SetOnConnect with a new handler, a mutation that completes
\* dispatches only to the new handler and never to the replaced one.
C26_OnlyRetained ==
    [][\A i \in 1..Len(pending') :
          i > Len(pending) => pending'[i].h = Retained(pending'[i].kind)]_vars

\* C26, for the registry-changed handler of an update alone: updateDevice
\* reads a.onChange when it dispatches, so that signal goes to the handler
\* retained at the dispatch.
C26_UpdateChangeRetained ==
    [][\A i \in 1..Len(pending') :
          (i > Len(pending) /\ th["worker"].pc = "upd_notify"
             /\ pending'[i].kind = "change")
              => pending'[i].h = onChange]_vars

\* C26 counterexample state: the worker has left the locked section of an
\* update that connects a device, holding the device-connected handler it
\* read there, and that handler has been replaced since.
C26_StaleConnectHandler ==
    /\ th["worker"].pc = "upd_notify" /\ th["worker"].just
    /\ th["worker"].cb # Nil /\ th["worker"].cb # onConnect

\* C26 counterexample state for a removal: removeDevice holds the
\* registry-changed handler it read under the lock, replaced since.
C26_StaleChangeHandler ==
    /\ th["worker"].pc = "rm_notify" /\ th["worker"].exists
    /\ th["worker"].hnd # Nil /\ th["worker"].hnd # onChange

----------------------------------------------------------------------------
(* The snapcast package: ensureURIScheme *)

(* The engine at rest, while a function of the snapcast package is tested. *)
AtRest ==
    /\ devices = [p \in {} |-> 1]
    /\ heap = [i \in Ids |-> ZeroDevice]
    /\ onChange = Nil
    /\ onConnect = Nil
    /\ th = [t \in Threads |-> IdleThread]
    /\ pending = <<>>
    /\ held = NoSnapshot
    /\ origin = [p \in DOMAIN devices |-> "load"]
    /\ bus = NoBus
    /\ queue = <<>>
    /\ nEv = 0
    /\ input = [path |-> Empty, props |-> NoProps]
    /\ stage = 0
    /\ after1 = ZeroDevice
    /\ slots = MaxPending
    /\ NoDiscovery
    /\ nOps = 0

MaxPieces == 3
MaxReapply == 2

(* Strings are sequences of characters. *)
wsScheme == <<"w", "s", ":", "/", "/">>
wssScheme == <<"w", "s", "s", ":", "/", "/">>
tcpScheme == <<"t", "c", "p", ":", "/", "/">>

(* The hosts tried: up to MaxPieces pieces of scheme and address. *)
HostPieces ==
    {<<"w", "s">>, <<"w", "s", "s">>, <<"t", "c", "p">>, <<":", "/", "/">>,
     <<":">>, <<"/">>, <<"a">>, <<"1", ".", "2">>}

RECURSIVE Concats(_, _)
Concats(pieces, n) ==
    IF n = 0 THEN {<<>>}
    ELSE LET shorter == Concats(pieces, n - 1)
         IN  shorter \cup {p \o s : p \in pieces, s \in shorter}

Hosts == Concats(HostPieces, MaxPieces)

(* An ensureURIScheme that does not know the tcp scheme. *)
ensureURIScheme_NoTcp(host) ==
    IF host = Empty THEN host
    ELSE IF HasPrefix(host, wsScheme) \/ HasPrefix(host, wssScheme) THEN host
    ELSE wsScheme \o host

(* Lines 421-432. *)
ensureURIScheme(host) ==
    IF host = Empty THEN host
    ELSE IF HasPrefix(host, wsScheme) \/ HasPrefix(host, wssScheme)
            \/ HasPrefix(host, tcpScheme)
         THEN host
    ELSE wsScheme \o host

InitURI ==
    /\ AtRest
    /\ call \in [fn : {"ensureURIScheme"}, arg : Hosts, outs : {<<>>}]

(* ensureURIScheme is applied to the host, then to its own result. *)
CallEnsureURIScheme ==
    /\ call.fn = "ensureURIScheme"
    /\ Len(call.outs) < MaxReapply
    /\ call' = [call EXCEPT !.outs =
                  Append(@, ensureURIScheme(IF @ = <<>> THEN call.arg ELSE @[Len(@)]))]
    /\ UNCHANGED <<devices, heap, onChange, onConnect, th, pending, held, origin,
                   env, input, stage, after1, slots, nOps, disc>>

NextURI == CallEnsureURIScheme

SpecURI == InitURI /\ [][NextURI]_vars

\* C27: ensureURIScheme returns the empty string for the empty string, its
\* input unchanged when the input starts with ws://, wss:// or tcp://, and
\* otherwise the input prefixed with ws://; applying it again to its result
\* gives the same result.
C27_EnsureURIScheme ==
    (call.fn = "ensureURIScheme" /\ call.outs # <<>>)
        => LET host == call.arg
               out == call.outs[1]
               schemed == \E s \in {wsScheme, wssScheme, tcpScheme} : HasPrefix(host, s)
           IN  /\ host = Empty => out = Empty
               /\ schemed => out = host
               /\ (host # Empty /\ ~schemed)
                     => /\ Len(out) = Len(host) + 5
                        /\ SubSeq(out, 1, 5) = <<"w", "s", ":", "/", "/">>
                        /\ SubSeq(out, 6, Len(out)) = host
               /\ \A i \in 2..Len(call.outs) : call.outs[i] = out

\* C27 witness: a host that carries the tcp scheme went through
\* ensureURIScheme twice and came out unchanged.
C27_Witness ==
    /\ call.fn = "ensureURIScheme" /\ Len(call.outs) = 2
    /\ call.arg = tcpScheme \o <<"a">>
    /\ call.outs[2] = call.arg

\* C27 witness of the default: a host with no scheme, which begins like a
\* scheme, was prefixed once and not again.
C27_WitnessPrefixed ==
    /\ call.fn = "ensureURIScheme" /\ Len(call.outs) = 2
    /\ call.arg = <<"w", "s", "s", ":", "a">>
    /\ call.outs[2] = wsScheme \o call.arg

----------------------------------------------------------------------------
(* The snapcast package: Manager.SetAlsaVolume and Manager.GetAlsaVolume *)

MinVolume == 0
MaxVolume == 100

(* The volumes tried: around both ends of the valid range. *)
Volumes == ((MinVolume - 2)..(MinVolume + 1)) \cup ((MaxVolume - 1)..(MaxVolume + 2))

(* The sound cards tried, as sequences of lexical pieces. *)
Soundcards ==
    {Empty, <<"default">>, <<"bluealsa">>, <<"BlueALSA">>,
     <<"plug:", "bluealsa">>, <<"hw:", "1">>}

ToLower(s) == [i \in 1..Len(s) |-> IF s[i] = "BlueALSA" THEN "bluealsa" ELSE s[i]]

Contains(s, sub) ==
    \E i \in 0..(Len(s) - Len(sub)) : SubSeq(s, i + 1, i + Len(sub)) = sub

(* Lines 780-810: what checkSoundcardExists knows without running aplay. *)
KnownWithoutAplay(soundcard) ==
    IF soundcard = Empty \/ soundcard = <<"default">> THEN "exists"
    ELSE IF soundcard = <<"bluealsa">> THEN "missing"
    ELSE "aplay"

(* A range check that lets a negative volume through. *)
InRange_NoFloor(volume) == volume <= MaxVolume

(* Line 901. *)
InRange(volume) == ~(volume < MinVolume \/ volume > MaxVolume)

InitAlsa ==
    /\ AtRest
    /\ call \in [fn : {"SetAlsaVolume", "GetAlsaVolume"},
                 arg : [enabled : BOOLEAN, soundcard : Soundcards, volume : Volumes],
                 pc : {"enter"}, cmds : {<<>>}, outs : {<<>>}]
    /\ call.fn = "GetAlsaVolume" => call.arg.volume = MinVolume

(* The function returns err. *)
AlsaReturn(c, err) == [c EXCEPT !.pc = "done", !.outs = <<err>>]

(* checkSoundcardExists has answered found; on true the amixer command is    *)
(* built (lines 906-922 and 941-957).                                        *)
AfterExists(c, found) ==
    IF found THEN [c EXCEPT !.pc = "amixer"] ELSE AlsaReturn(c, "soundcard not found")

(* Lines 890-909 and 937-944: the checks made before any command is run.     *)
AlsaEnter ==
    /\ call.fn \in {"SetAlsaVolume", "GetAlsaVolume"}
    /\ call.pc = "enter"
    /\ LET a == call.arg
           known == KnownWithoutAplay(a.soundcard)
           exists == IF known = "aplay" THEN [call EXCEPT !.pc = "aplay"]
                     ELSE AfterExists(call, known = "exists")
       IN  call' =
             IF ~a.enabled THEN AlsaReturn(call, "not enabled")
             ELSE IF call.fn = "GetAlsaVolume" THEN exists
             ELSE IF Contains(ToLower(a.soundcard), <<"bluealsa">>)
                  THEN AlsaReturn(call, "not supported for BlueALSA")
             ELSE IF ~InRange(a.volume) THEN AlsaReturn(call, "volume out of range")
             ELSE exists
    /\ UNCHANGED <<devices, heap, onChange, onConnect, th, pending, held, origin,
                   env, input, stage, after1, slots, nOps, disc>>

(* Lines 801-848: checkSoundcardExists runs `aplay -l`; the card is listed,  *)
(* or is not, or the command fails.                                          *)
RunAplay ==
    /\ call.fn \in {"SetAlsaVolume", "GetAlsaVolume"}
    /\ call.pc = "aplay"
    /\ \E found \in BOOLEAN :
         call' = AfterExists([call EXCEPT !.cmds = Append(@, [cmd |-> "aplay", verb |-> "-l"])],
                             found)
    /\ UNCHANGED <<devices, heap, onChange, onConnect, th, pending, held, origin,
                   env, input, stage, after1, slots, nOps, disc>>

(* Lines 924-932 and 959-987: amixer is run for the card; it fails, or       *)
(* succeeds, and GetAlsaVolume may find no percentage in its output.         *)
RunAmixer ==
    /\ call.fn \in {"SetAlsaVolume", "GetAlsaVolume"}
    /\ call.pc = "amixer"
    /\ \E err \in {"nil", "amixer failed"} \cup
                  (IF call.fn = "GetAlsaVolume" THEN {"could not parse"} ELSE {}) :
         call' = AlsaReturn([call EXCEPT !.cmds =
                               Append(@, [cmd |-> "amixer",
                                          verb |-> IF call.fn = "SetAlsaVolume"
                                                   THEN "set" ELSE "get"])],
                            err)
    /\ UNCHANGED <<devices, heap, onChange, onConnect, th, pending, held, origin,
                   env, input, stage, after1, slots, nOps, disc>>

NextAlsa ==
    \/ AlsaEnter
    \/ RunAplay
    \/ RunAmixer

SpecAlsa == InitAlsa /\ [][NextAlsa]_vars

(* The commands of that name run by the call so far. *)
Ran(name) == {i \in 1..Len(call.cmds) : call.cmds[i].cmd = name}

\* C28: SetAlsaVolume and GetAlsaVolume on a disabled manager return the
\* "not enabled" error and run no external command; SetAlsaVolume on an
\* enabled manager with a volume below 0 or above 100 returns an error and
\* runs no amixer command.
C28_AlsaVolumeGuards ==
    /\ ~call.arg.enabled => call.cmds = <<>>
    /\ (call.pc = "done" /\ ~call.arg.enabled) => call.outs = <<"not enabled">>
    /\ (call.fn = "SetAlsaVolume" /\ call.arg.enabled
          /\ (call.arg.volume < 0 \/ call.arg.volume > 100))
         => /\ Ran("amixer") = {}
            /\ call.pc = "done" => call.outs # <<"nil">>

\* C28 witness: SetAlsaVolume on an enabled manager, for a card that exists,
\* has returned an error for the volume 101.
C28_Witness ==
    /\ call.fn = "SetAlsaVolume" /\ call.pc = "done"
    /\ call.arg = [enabled |-> TRUE, soundcard |-> Empty, volume |-> 101]
    /\ call.outs = <<"volume out of range">>

\* C28 witness of a disabled manager: GetAlsaVolume has returned.
C28_WitnessDisabled ==
    /\ call.fn = "GetAlsaVolume" /\ call.pc = "done"
    /\ ~call.arg.enabled /\ call.arg.soundcard = <<"hw:", "1">>

\* C28 witness of the commands: SetAlsaVolume with the volume 100 has run
\* aplay and amixer and succeeded.
C28_WitnessCommands ==
    /\ call.fn = "SetAlsaVolume" /\ call.pc = "done"
    /\ call.arg.volume = 100 /\ call.outs = <<"nil">>
    /\ Ran("aplay") # {} /\ Ran("amixer") # {}

----------------------------------------------------------------------------
(* The snapcast package: parseOptions *)

MaxGroups == 3

defaultPlayer == <<"bluealsa">>

(* The option names, as strings of characters and lexical pieces. *)
LongFlag(field) ==
    CASE field = "Host" -> <<"-", "-", "host">>
      [] field = "InstanceID" -> <<"-", "-", "host", "ID">>
      [] field = "Player" -> <<"-", "-", "player">>
      [] field = "Soundcard" -> <<"-", "-", "soundcard">>

ShortFlag(field) ==
    CASE field = "Host" -> <<"-", "h">>
      [] field = "InstanceID" -> <<"-", "i">>
      [] field = "Soundcard" -> <<"-", "s">>
      [] field = "Player" -> <<>>

Fields4 == {"Host", "InstanceID", "Player", "Soundcard"}

OptValues == {<<"a">>, <<"ws", "://", "b">>, <<"-", "x">>}
EqValues == {<<"a">>, Empty}
PosValues == {<<"p">>, <<"tcp", "://", "q">>}

(* The groups an option string is built from: an option and its value in the *)
(* long, the short or the '=' form, or a positional token.                   *)
OptGroups ==
    [kind : {"long"}, field : Fields4, val : OptValues]
    \cup [kind : {"short"}, field : Fields4 \ {"Player"}, val : OptValues]
    \cup [kind : {"eq"}, field : Fields4, val : EqValues]
    \cup [kind : {"pos"}, field : {"Host"}, val : PosValues]

(* An option name at the end of the string, with no value after it. *)
Dangling ==
    [kind : {"dangling"}, field : Fields4, val : {Empty}]

RECURSIVE GroupSeqs(_)
GroupSeqs(n) ==
    IF n = 0 THEN {<<>>}
    ELSE LET shorter == GroupSeqs(n - 1)
         IN  shorter \cup {Append(s, g) : s \in shorter, g \in OptGroups}

(* The tokens of a group. *)
TokensOf(g) ==
    CASE g.kind = "long" -> <<LongFlag(g.field), g.val>>
      [] g.kind = "short" -> <<ShortFlag(g.field), g.val>>
      [] g.kind = "eq" -> <<LongFlag(g.field) \o <<"=">> \o g.val>>
      [] g.kind = "pos" -> <<g.val>>
      [] g.kind = "dangling" -> <<LongFlag(g.field)>>

(* The option string: the tokens of the groups, separated by spaces. *)
RECURSIVE Join(_)
Join(tokens) ==
    IF tokens = <<>> THEN <<>>
    ELSE IF Len(tokens) = 1 THEN tokens[1]
    ELSE tokens[1] \o <<" ">> \o Join(Tail(tokens))

RECURSIVE TokensOfAll(_)
TokensOfAll(gs) == IF gs = <<>> THEN <<>> ELSE TokensOf(Head(gs)) \o TokensOfAll(Tail(gs))

OptionString(gs) == Join(TokensOfAll(gs))

(* strings.Fields, line 353: the maximal runs without white space. *)
RECURSIVE FieldsFrom(_, _, _)
FieldsFrom(s, i, cur) ==
    IF i > Len(s) THEN (IF cur = <<>> THEN <<>> ELSE <<cur>>)
    ELSE IF s[i] = " "
         THEN (IF cur = <<>> THEN <<>> ELSE <<cur>>) \o FieldsFrom(s, i + 1, <<>>)
    ELSE FieldsFrom(s, i + 1, Append(cur, s[i]))

StringsFields(s) == FieldsFrom(s, 1, <<>>)

TrimPrefix(s, p) == IF HasPrefix(s, p) THEN SubSeq(s, Len(p) + 1, Len(s)) ELSE s

(* A parser that does not step over the value of an option. *)
AfterValue_NoSkip(i) == i + 1

(* Lines 358-396: i++ before continue, then the i++ of the loop.           *)
AfterValue(i) == i + 2

(* Lines 360-396 for one field: the name or short name followed by a value,  *)
(* or the name with '='.  The result says whether the part was an option of  *)
(* the field, the value taken and the next index.                            *)
OptionOf(parts, i, field) ==
    LET part == parts[i]
        eq == LongFlag(field) \o <<"=">>
    IN  IF (part = LongFlag(field) \/ (field # "Player" /\ part = ShortFlag(field)))
           /\ i + 1 <= Len(parts)
        THEN [hit |-> TRUE, val |-> parts[i + 1], next |-> AfterValue(i)]
        ELSE IF HasPrefix(part, eq)
        THEN [hit |-> TRUE, val |-> TrimPrefix(part, eq), next |-> i + 1]
        ELSE [hit |-> FALSE, val |-> Empty, next |-> i + 1]

(* Lines 355-406: the loop over the parts. *)
RECURSIVE ParseFrom(_, _, _)
ParseFrom(parts, i, config) ==
    IF i > Len(parts) THEN config
    ELSE LET part == parts[i]
             host == OptionOf(parts, i, "Host")
             id == OptionOf(parts, i, "InstanceID")
             player == OptionOf(parts, i, "Player")
             card == OptionOf(parts, i, "Soundcard")
         IN  IF host.hit
             THEN ParseFrom(parts, host.next, [config EXCEPT !.Host = host.val])
             ELSE IF id.hit
             THEN ParseFrom(parts, id.next, [config EXCEPT !.InstanceID = id.val])
             ELSE IF player.hit
             THEN ParseFrom(parts, player.next, [config EXCEPT !.Player = player.val])
             ELSE IF card.hit
             THEN ParseFrom(parts, card.next, [config EXCEPT !.Soundcard = card.val])
             ELSE IF ~HasPrefix(part, <<"-", "-">>) /\ ~HasPrefix(part, <<"-">>)
                     /\ (config.Host = Empty \/ Contains(part, <<"://">>))
             THEN ParseFrom(parts, i + 1, [config EXCEPT !.Host = part])
             ELSE ParseFrom(parts, i + 1, config)

(* Lines 347-409. *)
parseOptions(opts) ==
    ParseFrom(StringsFields(opts), 1,
              [Host |-> Empty, InstanceID |-> Empty, Player |-> defaultPlayer,
               Soundcard |-> Empty])

InitParse ==
    /\ AtRest
    /\ \E gs \in GroupSeqs(MaxGroups), last \in Dangling \cup {<<>>} :
         LET groups == IF last = <<>> THEN gs ELSE Append(gs, last)
         IN  call = [fn |-> "parseOptions",
                     arg |-> [groups |-> groups, opts |-> OptionString(groups)],
                     outs |-> <<>>]

CallParseOptions ==
    /\ call.fn = "parseOptions"
    /\ call.outs = <<>>
    /\ call' = [call EXCEPT !.outs = <<parseOptions(call.arg.opts)>>]
    /\ UNCHANGED <<devices, heap, onChange, onConnect, th, pending, held, origin,
                   env, input, stage, after1, slots, nOps, disc>>

NextParse == CallParseOptions

SpecParse == InitParse /\ [][NextParse]_vars

(* What the claim says of a sequence of groups, read from its end: the value *)
(* of the last option of the field, the default where there is none.         *)
RECURSIVE LastOption(_, _, _)
LastOption(gs, field, default) ==
    IF gs = <<>> THEN default
    ELSE LET g == gs[Len(gs)]
             before == SubSeq(gs, 1, Len(gs) - 1)
         IN  IF g.kind \in {"long", "short", "eq"} /\ g.field = field THEN g.val
             ELSE LastOption(before, field, default)

(* The Host: the last host option or positional token that counts, where a   *)
(* positional token counts when the Host before it is empty or it contains   *)
(* "://".                                                                    *)
RECURSIVE HostOf(_)
HostOf(gs) ==
    IF gs = <<>> THEN Empty
    ELSE LET g == gs[Len(gs)]
             before == SubSeq(gs, 1, Len(gs) - 1)
         IN  IF g.kind \in {"long", "short", "eq"} /\ g.field = "Host" THEN g.val
             ELSE IF g.kind = "pos"
                     /\ (HostOf(before) = Empty \/ Contains(g.val, <<"://">>))
             THEN g.val
             ELSE HostOf(before)

\* C29: for every option string built from the recognised tokens,
\* parseOptions yields Player "bluealsa" unless a --player option is
\* present, takes Host, InstanceID and Soundcard from the long form with a
\* following value, the '=' form and the short form, and takes a positional
\* token not starting with '-' as Host when Host is still empty or the
\* token contains "://".
C29_ParseOptions ==
    (call.fn = "parseOptions" /\ call.outs # <<>>)
        => LET gs == call.arg.groups
               config == call.outs[1]
           IN  /\ config.Player = LastOption(gs, "Player", <<"bluealsa">>)
               /\ config.InstanceID = LastOption(gs, "InstanceID", Empty)
               /\ config.Soundcard = LastOption(gs, "Soundcard", Empty)
               /\ config.Host = HostOf(gs)

\* C29 witness: the string "--soundcard a p -i -x" was parsed: the value of
\* --soundcard was not taken for a positional token, the positional token
\* became the Host, and the Player is the default.
C29_Witness ==
    /\ call.fn = "parseOptions" /\ call.outs # <<>>
    /\ call.arg.opts = <<"-", "-", "soundcard", " ", "a", " ", "p", " ", "-", "i", " ", "-", "x">>
    /\ call.outs[1] = [Host |-> <<"p">>, InstanceID |-> <<"-", "x">>,
                       Player |-> <<"bluealsa">>, Soundcard |-> <<"a">>]

\* C29 witness of the positional rule: after --host=a a positional token
\* with a scheme replaced the Host, and a later one without did not.
C29_WitnessPositional ==
    /\ call.fn = "parseOptions" /\ call.outs # <<>>
    /\ call.arg.opts = <<"-", "-", "host", "=", "a", " ", "tcp", "://", "q", " ", "p">>
    /\ call.outs[1].Host = <<"tcp", "://", "q">>

----------------------------------------------------------------------------
(* SpecOrder: notifications arrive faster than the worker reconciles them *)

MaxBurst == 2
MaxBurstEvents == 3

BoolProps == {"Connected", "Paired", "Trusted"}

(* BlueZ changes some of the boolean properties of an object and emits one   *)
(* PropertiesChanged carrying the new values; the signals channel (line 237) *)
(* holds the notifications the worker has not taken yet.                     *)
BusPropertiesChange ==
    /\ nEv < MaxBurstEvents
    /\ Len(queue) < MaxBurst
    /\ \E p \in BusPaths, K \in SUBSET BoolProps \ {{}} :
         /\ bus[p].dev
         /\ Happens([bus EXCEPT ![p] = [k \in DOMAIN @ |-> IF k \in K THEN ~@[k] ELSE @[k]]],
                    Changed(p, bluezDeviceIface, [k \in K |-> VB(~bus[p][k])]))

NextOrder ==
    \/ BusPropertiesChange
    \/ Receive
    \/ UpdLocked("worker")
    \/ UpdNotify("worker")
    \/ RunHandler

SpecOrder == InitBlock /\ [][NextOrder]_vars

(* The registry's device has the boolean properties the bus object has. *)
AsOnBus(p) == \A k \in BoolProps : Dev(p)[k] = bus[p][k]

\* C30: the worker reconciles the notifications one at a time in arrival
\* order: a notification is taken only when the handling of the one before
\* has finished, it is the oldest one waiting, the ones behind it keep
\* their order, and so, once the worker has caught up, a device has the
\* property values of the last notification that carried each of them.
C30_InArrivalOrder ==
    /\ [](Settled => \A p \in DOMAIN devices : AsOnBus(p))
    /\ [][Len(queue') < Len(queue)
            => /\ th["worker"].pc = "idle"
               /\ th'["worker"].pc = "upd" =>
                     /\ th'["worker"].path = Head(queue).path
                     /\ th'["worker"].props = Head(queue).props
               /\ queue' = Tail(queue)]_vars
    /\ [][Len(queue') > Len(queue)
            => SubSeq(queue', 1, Len(queue)) = queue]_vars

\* C30 witness: the worker has applied a notification that connected the
\* device and has not finished handling it, while a later notification that
\* disconnected the same device waits in the channel.
C30_Witness ==
    /\ th["worker"].pc = "upd_notify" /\ th["worker"].path = P1
    /\ "Connected" \in DOMAIN th["worker"].props
    /\ Dev(P1).Connected
    /\ Len(queue) = 1 /\ queue[1].path = P1
    /\ "Connected" \in DOMAIN queue[1].props
    /\ ~queue[1].props["Connected"].b

\* C30 witness of the end: three notifications were emitted, the worker has
\* reconciled them all, and the device is as on the bus.
C30_WitnessSettled ==
    /\ Settled /\ nEv = MaxBurstEvents /\ P1 \in DOMAIN devices
    /\ Dev(P1).Paired /\ ~Dev(P1).Connected /\ bus[P1].Paired

\* C30 witness of the waiting notifications: two notifications for the same
\* path with different values of Connected are in the channel.
C30_WitnessQueued ==
    /\ Len(queue) = 2
    /\ queue[1].path = P1 /\ queue[2].path = P1
    /\ "Connected" \in DOMAIN queue[1].props
    /\ "Connected" \in DOMAIN queue[2].props
    /\ queue[1].props["Connected"] # queue[2].props["Connected"]

----------------------------------------------------------------------------
(* Properties of paths outside the adapter's device subtree *)

\* C31: every registry key starts with the managed adapter's path followed
\* by "/dev_"; an application of a property set (as object-added,
\* property-changed, bulk load and refresh make it, through updateDevice)
\* for any other path leaves the registry unchanged and dispatches no
\* signal.
C31_OutsideSubtreeIgnored ==
    /\ \A p \in DOMAIN devices : HasPrefix(p, adapterPath \o <<"/", "dev_">>)
    /\ (Done("api", "upd")
          /\ ~HasPrefix(th["api"].path, adapterPath \o <<"/", "dev_">>))
         => /\ View = th["api"].pre
            /\ th["api"].sent = <<>>

\* C31 witness: with both handlers registered and a device in the registry,
\* a property set with Connected=true was applied for a path of another
\* adapter, and nothing was dispatched.
C31_Witness ==
    /\ Done("api", "upd") /\ th["api"].path = Foreign
    /\ onChange # Nil /\ onConnect # Nil
    /\ DOMAIN devices # {}
    /\ th["api"].sent = <<>>
    /\ View = th["api"].pre

----------------------------------------------------------------------------
(* SpecMalformed: malformed notifications among the well-formed ones *)

(* The forms of body a peer of the bus can give to each notification. *)
FormsOf(name) ==
    CASE name = "InterfacesAdded" -> {"short", "badpath", "badpayload"}
      [] name = "InterfacesRemoved" -> {"short", "badpath", "badpayload"}
      [] name = "PropertiesChanged" -> {"short", "badiface", "badpayload"}

(* A notification the match rules of lines 224-235 let through, whose body   *)
(* is not what BlueZ sends: what it would do to path p if it were applied.   *)
MalformedNotes(p) ==
    {[Added(p, {bluezDeviceIface}, FullProps([NoObject EXCEPT !.Connected = TRUE], p))
         EXCEPT !.form = f] : f \in FormsOf("InterfacesAdded")}
    \cup {[Removed(p, {bluezDeviceIface}) EXCEPT !.form = f] :
            f \in FormsOf("InterfacesRemoved")}
    \cup {[Changed(p, bluezDeviceIface, [k \in {"Connected"} |-> VB(TRUE)])
             EXCEPT !.form = f] : f \in FormsOf("PropertiesChanged")}
    \cup {Changed(p, otherIface, [k \in {"Connected"} |-> VB(TRUE)])}

(* Such a notification arrives; nothing changes on the bus. *)
BusMalformed ==
    /\ nEv < MaxBurstEvents
    /\ Len(queue) < MaxBurst
    /\ \E p \in DevicePaths : \E note \in MalformedNotes(p) : Happens(bus, note)

NextMalformed ==
    \/ BusMalformed
    \/ BusPropertiesChange
    \/ Receive
    \/ UpdLocked("worker")
    \/ UpdNotify("worker")
    \/ RmLocked("worker")
    \/ RmNotify("worker")
    \/ RunHandler

SpecMalformed == InitBlock /\ [][NextMalformed]_vars

(* The notification is one of those the claim is about. *)
Malformed(sig) ==
    \/ sig.form # "ok"
    \/ sig.name = "PropertiesChanged" /\ sig.iface # bluezDeviceIface

(* The worker takes a notification and is done with it at once: the registry *)
(* is as before, nothing is dispatched, and the worker is free for the next. *)
DroppedNow ==
    /\ th'["worker"].pc = "idle"
    /\ devices' = devices
    /\ ViewOf(devices', heap') = View
    /\ pending' = pending

\* C32: a notification whose body is too short, whose path or payload has
\* the wrong type, or (for property-changed) whose interface is not the
\* device interface leaves the registry unchanged, dispatches no signal,
\* and the worker goes on with the notifications that follow.
C32_MalformedDropped ==
    [][(Len(queue') < Len(queue) /\ Malformed(Head(queue))) => DroppedNow]_vars

\* C32, without the object-removed notification whose second element has
\* the wrong type: every other malformed notification is dropped.
C32_DroppedUnlessRemoved ==
    [][(/\ Len(queue') < Len(queue) /\ Malformed(Head(queue))
        /\ ~(Head(queue).name = "InterfacesRemoved" /\ Head(queue).form = "badpayload"))
          => DroppedNow]_vars

\* C32 counterexample state: the worker has removed a device for an
\* object-removed notification whose second element had the wrong type, and
\* has a registry-changed signal to dispatch.
C32_RemovedOnBadPayload ==
    /\ th["worker"].pc = "rm_notify" /\ th["worker"].exists
    /\ th["worker"].path \notin DOMAIN devices
    /\ bus[th["worker"].path].dev
    /\ nEv = 1

\* C32, the notifications that follow: a well-formed property-changed
\* notification behind a malformed one has been reconciled.
C32_FollowingReconciled ==
    /\ Settled /\ nEv = 2 /\ P1 \in DOMAIN devices
    /\ Dev(P1).Connected /\ bus[P1].Connected
    /\ held.from = "onConnect"

----------------------------------------------------------------------------
(* The steps of StartDiscovery *)

PowerMethods == {"Get Powered", "Set Powered", "rfkill"}

PowerCalls(calls) == {i \in 1..Len(calls) : calls[i].m \in PowerMethods}

\* C33: a StartDiscovery from Idle performs its steps in the order power
\* check, bulk load, StartDiscovery bus call; when the power check fails
\* neither the bulk load nor the bus call is issued, and a failed
\* enumeration of the bulk load does not prevent the bus call.
C33_StartSteps ==
    \A i \in 1..Len(hist) :
        (hist[i].done /\ hist[i].op = "StartDiscovery" /\ hist[i].idle)
            => LET c == hist[i].calls
                   load == Positions(c, "GetManagedObjects")
                   start == Positions(c, "StartDiscovery")
               IN  /\ PowerCalls(c) # {}
                   /\ PowerCheckFailed(c) => (load = {} /\ start = {})
                   /\ ~PowerCheckFailed(c)
                        => /\ Cardinality(load) = 1
                           /\ Cardinality(start) = 1
                           /\ \A p \in PowerCalls(c), l \in load, s \in start :
                                 p < l /\ l < s
                           /\ Len(c) = Cardinality(PowerCalls(c)) + 2

\* C33 witness: the enumeration of the bulk load failed and the
\* StartDiscovery bus call was issued after it and succeeded.
C33_Witness ==
    /\ Len(hist) = 1 /\ hist[1].done /\ hist[1].op = "StartDiscovery"
    /\ hist[1].calls = <<[m |-> "Get Powered", ok |-> TRUE],
                         [m |-> "GetManagedObjects", ok |-> FALSE],
                         [m |-> "StartDiscovery", ok |-> TRUE]>>
    /\ IsScanning

\* C33 witness of the failed power check: the power-on failed after the
\* rfkill unblock, and nothing else was issued.
C33_WitnessPowerFailed ==
    /\ Len(hist) = 1 /\ hist[1].done /\ hist[1].op = "StartDiscovery"
    /\ Methods(hist[1].calls) = <<"Get Powered", "Set Powered", "rfkill", "Set Powered">>
    /\ hist[1].res = "failed" /\ ~IsScanning

----------------------------------------------------------------------------
(* The lock: which shared fields each step touches, and under which mode of  *)
(* a.mu                                                                      *)

Access(field, kind, lock) == [field |-> field, kind |-> kind, lock |-> lock]

(* The accesses of the step a thread is about to take.  updateDevice, lines  *)
(* 303-354, works under a.mu.Lock() and reads a.onChange after Unlock(),     *)
(* lines 356-357, where GetDevices() takes the read lock for the map;        *)
(* removeDevice, lines 367-377, reads a.onChange under the lock.             *)
Accesses(tr) ==
    CASE tr.pc = "upd" /\ ~Ignored(tr.path) ->
            {Access("devices", "write", "exclusive"),
             Access("onConnect", "read", "exclusive")}
      [] tr.pc = "upd_notify" ->
            {Access("onChange", "read", "none")}
            \cup (IF onChange # Nil THEN {Access("devices", "read", "shared")} ELSE {})
      [] tr.pc = "rm" ->
            {Access("devices", "write", "exclusive"),
             Access("onChange", "read", "exclusive")}
      [] tr.pc = "rm_notify" ->
            IF NotifiesRemoval(tr.exists, tr.hnd)
            THEN {Access("devices", "read", "shared")} ELSE {}
      [] OTHER -> {}

(* SetOnChange and SetOnConnect, lines 122-133, write under a.mu.Lock(). *)
SetterWrites ==
    {Access("onChange", "write", "exclusive"), Access("onConnect", "write", "exclusive")}

(* The mode the claim asks for. *)
Guarded(a) ==
    IF a.kind = "write" THEN a.lock = "exclusive" ELSE a.lock \in {"shared", "exclusive"}

\* C34: every read and write of the device map, the onChange handler and
\* the onConnect handler happens while the lock is held in the appropriate
\* mode, so no thread reads a field without the lock while SetOnChange or
\* SetOnConnect may be writing it.
C34_AllUnderLock ==
    /\ \A a \in SetterWrites : Guarded(a)
    /\ \A t \in Threads : \A a \in Accesses(th[t]) : Guarded(a)

\* C34, without the read of a.onChange that updateDevice makes after
\* unlocking: every other access is made under the lock.
C34_UnderLockButOnChange ==
    \A t \in Threads : \A a \in Accesses(th[t]) :
        Guarded(a) \/ (th[t].pc = "upd_notify" /\ a = Access("onChange", "read", "none"))

\* C34 counterexample state: the worker is about to read a.onChange without
\* the lock, in updateDevice, while the application can still call
\* SetOnChange with another handler.
C34_UnlockedRead ==
    /\ th["worker"].pc = "upd_notify"
    /\ Access("onChange", "read", "none") \in Accesses(th["worker"])
    /\ nOps < MaxOps

----------------------------------------------------------------------------
(* Commands that return an error *)

(* Nobody but the command can have changed the registry since it began: no  *)
(* one else acted on the bus, and with a registry-changed handler set no     *)
(* signal was dispatched by anyone.                                          *)
OnlyTheCommand(tr) ==
    /\ tr.quiet /\ onChange # Nil
    /\ \A i \in 1..Len(tr.heard) : \E j \in 1..Len(tr.sent) : tr.heard[i] = tr.sent[j]
    /\ th["worker"].pc \in {"idle", "upd", "rm"}

\* C35: a command (Trust, Pair, Connect, Disconnect or Remove) that returns
\* an error has made no change to the registry and has dispatched no
\* registry-changed or device-connected signal.
C35_FailedCommandNoEffect ==
    \A c \in CmdNames :
        LET tr == th["cmd"] IN
        (Returning(c) /\ tr.res # "ok")
            => /\ tr.sent = <<>>
               /\ OnlyTheCommand(tr) => View = tr.pre

\* C35 for every command but Connect: Trust, Pair, Disconnect and Remove
\* return an error before they touch the registry.
C35_FailedButConnectNoEffect ==
    \A c \in CmdNames \ {"connect"} :
        LET tr == th["cmd"] IN
        (Returning(c) /\ tr.res # "ok")
            => /\ tr.sent = <<>>
               /\ OnlyTheCommand(tr) => View = tr.pre

\* C35 counterexample state: Connect is returning an error, its Connect bus
\* call having failed, after the refresh of the Trust it ran first has set
\* Trusted in the registry and dispatched a registry-changed signal.
C35_FailedConnectTrusted ==
    LET tr == th["cmd"] IN
    /\ Returning("connect") /\ tr.res = "failed"
    /\ Methods(tr.calls) = <<"Set Trusted", "GetAll", "Connect">>
    /\ OnlyTheCommand(tr)
    /\ tr.path \in DOMAIN tr.pre /\ ~tr.pre[tr.path].Trusted
    /\ Dev(tr.path).Trusted
    /\ Count(tr.sent, "change") = 1

----------------------------------------------------------------------------
(* SpecRace: StartDiscovery and StopDiscovery called from two goroutines *)

MaxRaceCalls == 3

Callers == {"cmd", "api"}

(* The call of caller t that has not returned. *)
Mine(t) == CHOOSE i \in 1..Len(hist) : hist[i].by = t /\ ~hist[i].done

RaceCall(t) ==
    /\ th[t].pc = "idle"
    /\ Len(hist) < MaxRaceCalls
    /\ \E op \in {"StartDiscovery", "StopDiscovery"} :
         /\ th' = [th EXCEPT ![t] =
                     [Call(t, op, Empty, NoProps)
                         EXCEPT !.pc = IF op = "StartDiscovery" THEN "start" ELSE "stop",
                                !.stack = <<"race_ret">>]]
         /\ hist' = Append(hist, [op |-> op, by |-> t, done |-> FALSE,
                                  res |-> "none", calls |-> <<>>, scanning |-> FALSE,
                                  started |-> FALSE])
    /\ UNCHANGED <<devices, heap, onChange, onConnect, pending, held, origin,
                   env, input, stage, after1, call, slots, nOps, scanning, adapter>>

(* The bus calls of the i-th call so far. *)
RaceCallsOf(i) == IF hist[i].done THEN hist[i].calls ELSE th[hist[i].by].calls

(* A StartDiscovery bus call has returned success. *)
StartSucceeded ==
    \E i \in 1..Len(hist) : \E k \in 1..Len(RaceCallsOf(i)) :
        RaceCallsOf(i)[k].m = "StartDiscovery" /\ RaceCallsOf(i)[k].ok

(* The caller has the result; scanning is what IsScanning() answers it now,  *)
(* started whether a StartDiscovery bus call has succeeded by now.           *)
RaceReturn(t) ==
    /\ th[t].pc = "race_ret"
    /\ hist' = [hist EXCEPT ![Mine(t)] =
                  [@ EXCEPT !.done = TRUE, !.res = th[t].res, !.calls = th[t].calls,
                            !.scanning = IsScanning,
                            !.started = StartSucceeded]]
    /\ th' = [th EXCEPT ![t] = IdleThread]
    /\ UNCHANGED <<devices, heap, onChange, onConnect, pending, held, origin,
                   env, input, stage, after1, call, slots, nOps, scanning, adapter>>

NextRace ==
    \E t \in Callers :
        \/ RaceCall(t)
        \/ StartLocked(t)
        \/ PowerGet(t)
        \/ PowerSet(t)
        \/ Rfkill(t)
        \/ StartFail(t)
        \/ LoadCall(t)
        \/ LoadLoop(t)
        \/ UpdLocked(t)
        \/ UpdNotify(t)
        \/ StartCall(t)
        \/ StopLocked(t)
        \/ StopCall(t)
        \/ StopClear(t)
        \/ RaceReturn(t)

SpecRace == InitDisc /\ [][NextRace]_vars

AllReturned == hist # <<>> /\ \A i \in 1..Len(hist) : hist[i].done

(* Every bus call made was answered with success. *)
BusAllOk == \A i \in 1..Len(hist) : AllOk(RaceCallsOf(i))

\* C36: under any interleaving of concurrent StartDiscovery and
\* StopDiscovery calls, once all calls have returned, IsScanning() is true
\* if and only if discovery is active on the bus, that is, the last bus
\* discovery call that succeeded was StartDiscovery.
C36_FlagMatchesBus ==
    AllReturned => (IsScanning <=> adapter.Discovering)

\* C36 counterexample state: a StartDiscovery and a StopDiscovery that ran
\* concurrently have both returned success, every bus call having
\* succeeded; the StopDiscovery bus call was made before the StartDiscovery
\* one, the flag was cleared after it: discovery is active on the bus and
\* IsScanning() is false.
C36_ActiveButIdle ==
    /\ AllReturned /\ Len(hist) = 2 /\ BusAllOk
    /\ hist[1].op = "StartDiscovery" /\ hist[2].op = "StopDiscovery"
    /\ hist[1].res = "ok" /\ hist[2].res = "ok"
    /\ adapter.Discovering /\ ~IsScanning

\* C36, the direction the code keeps: once all calls
\* have returned, IsScanning() is true only with discovery active on the bus.
C36_ScanningOnlyIfActive ==
    (AllReturned /\ IsScanning) => adapter.Discovering

NoStopInvoked == \A i \in 1..Len(hist) : hist[i].op = "StartDiscovery"

(* The i-th call made the StartDiscovery bus call itself. *)
MadeStartCall(i) == Starts(hist[i].calls) > 0

\* C37: whenever a StartDiscovery call returns success and no StopDiscovery
\* is invoked, a StartDiscovery bus call has succeeded and IsScanning() is
\* true; this holds for every caller when several StartDiscovery calls run
\* concurrently, including a caller that returns through the
\* already-scanning path.
C37_SuccessMeansStarted ==
    NoStopInvoked =>
        \A i \in 1..Len(hist) :
            (hist[i].done /\ hist[i].res = "ok")
                => /\ hist[i].started /\ hist[i].scanning
                   /\ AllReturned => (StartSucceeded /\ IsScanning)

\* C37 for the caller that made the bus call itself: it returns success
\* after a StartDiscovery bus call has succeeded, with IsScanning() true.
C37_StarterMeansStarted ==
    NoStopInvoked =>
        \A i \in 1..Len(hist) :
            (hist[i].done /\ hist[i].res = "ok" /\ MadeStartCall(i))
                => /\ hist[i].started /\ hist[i].scanning
                   /\ StartSucceeded /\ IsScanning

\* C37 counterexample state: of two concurrent StartDiscovery calls the
\* second returned success through the already-scanning path and the first
\* one's bus call failed: all calls have returned, no StartDiscovery bus
\* call has succeeded and IsScanning() is false.
C37_SuccessWithoutStart ==
    /\ AllReturned /\ Len(hist) = 2 /\ NoStopInvoked
    /\ hist[1].res = "failed" /\ Starts(hist[1].calls) = 1
    /\ hist[2].res = "ok" /\ hist[2].calls = <<>>
    /\ ~StartSucceeded /\ ~IsScanning /\ ~adapter.Discovering

----------------------------------------------------------------------------
(* One change of Connected seen twice *)

(* The command's last two bus calls are the Connect call and the GetAll of   *)
(* the forced refresh, lines 587-597, both answered with success.            *)
ConnectRefreshed(calls) ==
    /\ Len(calls) >= 2
    /\ calls[Len(calls) - 1] = [m |-> "Connect", ok |-> TRUE]
    /\ calls[Len(calls)] = [m |-> "GetAll", ok |-> TRUE]

(* Connect(address) on a device the registry holds with Connected=false has  *)
(* made the device connected on the bus and applied its forced refresh,      *)
(* nothing else acting on the bus meanwhile.                                 *)
ConnectObservedTwice ==
    LET tr == th["cmd"] IN
    /\ Returning("connect") /\ tr.quiet /\ onConnect # Nil
    /\ tr.path \in DOMAIN tr.pre /\ ~tr.pre[tr.path].Connected
    /\ ConnectRefreshed(tr.calls)

\* C38: when a single false-to-true change of Connected on the bus is
\* observed both by a property-changed notification and by the Connect
\* command's forced refresh, exactly one device-connected signal is
\* dispatched, whichever of the two is applied first: never a second one,
\* and one once both have been applied.
C38_OneSignalPerChange ==
    LET tr == th["cmd"] IN
    ConnectObservedTwice
        => /\ Count(tr.heard, "connect") <= 1
           /\ Count(tr.sent, "connect") = 1 => Count(tr.heard, "connect") = 1
           /\ Settled => Count(tr.heard, "connect") = 1

\* C38 witness: the worker applied the notification first and dispatched the
\* signal; the refresh, applied second, dispatched none.
C38_Witness ==
    LET tr == th["cmd"] IN
    /\ ConnectObservedTwice /\ Settled
    /\ ConnectedIn(View, tr.path)
    /\ Count(tr.heard, "connect") = 1
    /\ Count(tr.sent, "connect") = 0

\* C38 witness of the other order: the refresh was applied first and has
\* dispatched the signal while the notification of the change still waits
\* for the worker.
C38_WitnessRefreshFirst ==
    LET tr == th["cmd"] IN
    /\ ConnectObservedTwice
    /\ Count(tr.sent, "connect") = 1
    /\ th["worker"].pc = "idle"
    /\ queue = <<Changed(tr.path, bluezDeviceIface,
                         [k \in {"Connected"} |-> VB(TRUE)])>>

\* C38 witness: in that order too, once the worker has applied the
\* notification one signal has been dispatched.
C38_WitnessRefreshFirstSettled ==
    LET tr == th["cmd"] IN
    /\ ConnectObservedTwice /\ Settled
    /\ Count(tr.sent, "connect") = 1
    /\ Count(tr.heard, "connect") = 1
    /\ Count(tr.heard, "change") > Count(tr.sent, "change")

----------------------------------------------------------------------------
(* SpecEnter: devices entering the registry, with onConnect registered *)

(* The objects BlueZ can export at a device path. *)
DeviceObjects ==
    {[NoObject EXCEPT !.dev = TRUE, !.aux = a, !.Connected = c] : a, c \in BOOLEAN}

(* The registry holds what NewAdapter's bulk load found on the bus, or       *)
(* nothing when that load failed (lines 496-499); the application has        *)
(* registered an onConnect handler since.                                    *)
InitEnter ==
    /\ bus \in {b \in [BusPaths -> DeviceObjects \cup {NoObject}] :
                  b[Foreign] = [NoObject EXCEPT !.dev = TRUE]}
    /\ devices \in {[p \in Loaded(bus) |-> 1], [p \in {} |-> 1]}
    /\ heap = [i \in Ids |->
                 IF i = 1 /\ DOMAIN devices # {}
                 THEN ApplyProps(ZeroDevice, FullProps(bus[P1], P1),
                                 InOrder(KeyOrder, DOMAIN FullProps(bus[P1], P1)))
                 ELSE ZeroDevice]
    /\ origin = [p \in DOMAIN devices |-> "load"]
    /\ onChange = Nil
    /\ onConnect = "h1"
    /\ th = [t \in Threads |-> IdleThread]
    /\ pending = <<>>
    /\ held = NoSnapshot
    /\ queue = <<>>
    /\ nEv = 0
    /\ input = [path |-> Empty, props |-> NoProps]
    /\ stage = 0
    /\ call = NoCall
    /\ slots = MaxPending
    /\ after1 = ZeroDevice
    /\ NoDiscovery
    /\ nOps = 0

(* BlueZ exports a device object, connected or not: InterfacesAdded carries  *)
(* its properties.                                                           *)
BusAppearConnected ==
    /\ CanHappen
    /\ \E p \in DevicePaths, o \in DeviceObjects :
         /\ ~bus[p].dev /\ ~o.aux
         /\ Happens([bus EXCEPT ![p] = o], Added(p, {bluezDeviceIface}, FullProps(o, p)))

NextEnter ==
    \/ BusAppearConnected
    \/ BusAuxVanish
    \/ BusConnectedChange
    \/ Receive
    \/ StartCmd
    \/ StartLoad
    \/ \E t \in EngineThreads : UpdLocked(t)
    \/ \E t \in EngineThreads : UpdNotify(t)
    \/ RmLocked("worker")
    \/ RmNotify("worker")
    \/ ConnectBegin("cmd")
    \/ CmdCall("cmd")
    \/ Refresh("cmd")
    \/ CmdOk("cmd")
    \/ RemoveCall("cmd")
    \/ RemoveLocked("cmd")
    \/ RemoveNotify("cmd")
    \/ LoadCall("cmd")
    \/ LoadLoop("cmd")
    \/ CmdReturn("cmd")
    \/ Broadcast

SpecEnter == InitEnter /\ [][NextEnter]_vars

EntrySources == {"load", "InterfacesAdded", "PropertiesChanged", "refresh"}

(* The device-connected handlers started in this step. *)
ConnectsSentNow == Count(pending', "connect") - Count(pending, "connect")

(* updateDevice on thread t leaves its dispatch, lines 356-363. *)
LeavesNotify(t) == th[t].pc = "upd_notify" /\ th'[t].pc # "upd_notify"

(* A bulk load that succeeded returns, nothing else having acted meanwhile:  *)
(* for each connected device it reported, one device-connected signal when   *)
(* the registry did not hold the device as connected before, and none when   *)
(* it did.                                                                   *)
LoadSignals ==
    LET tr == th["cmd"] IN
    (/\ Returning("load") /\ tr.quiet
     /\ tr.calls = <<[m |-> "GetManagedObjects", ok |-> TRUE]>>)
        => \A p \in DevicePaths :
             (bus[p].dev /\ bus[p].Connected)
                => ConnectsOf(tr.sent, PathAddr(p))
                      = IF ConnectedIn(tr.pre, p) THEN 0 ELSE 1

\* C39: with an onConnect handler registered, a device that enters the
\* registry for the first time with Connected=true (through bulk load,
\* object-added, property-changed or refresh) causes one device-connected
\* signal, because a newly created record starts with Connected=false; a
\* later bulk load that reports the same device still connected causes none.
C39_FirstEntrySignals ==
    /\ [](onConnect # Nil /\ LoadSignals)
    /\ [][\A t \in EngineThreads :
            LeavesNotify(t) =>
               LET tr == th[t] IN
               /\ (~tr.exists /\ tr.copy.dev.Connected)
                     => /\ tr.src \in EntrySources
                        /\ ConnectsSentNow = 1
                        /\ pending'[Len(pending')] = ConnectSig(onConnect, tr.copy)
               /\ (tr.exists /\ tr.was /\ tr.copy.dev.Connected /\ tr.src = "load")
                     => ConnectsSentNow = 0]_vars

(* The device P1 entered the registry connected through src and one          *)
(* device-connected signal was dispatched for it by the thread t.            *)
EnteredConnected(t, src) ==
    /\ P1 \notin DOMAIN th[t].pre
    /\ ConnectedIn(View, P1) /\ origin[P1] = src
    /\ ConnectsOf(th[t].sent, Addr1) = 1
    /\ Count(th[t].heard, "connect") = 1

\* C39 witness: a bulk load put a connected device into a registry that did
\* not hold it, and one device-connected signal was dispatched.
C39_Witness ==
    /\ Returning("load") /\ th["cmd"].quiet
    /\ EnteredConnected("cmd", "load")

(* The worker, the only thread to have touched the registry, created the     *)
(* record of P1 from a notification of the kind src, and the one handler     *)
(* started is the device-connected handler for it.                           *)
WorkerEntered(src) ==
    /\ Settled /\ nOps = 0
    /\ P1 \in DOMAIN devices /\ origin[P1] = src
    /\ pending = <<ConnectSig(onConnect, deviceCopy(devices[P1], Dev(P1)))>>
    /\ Dev(P1).Connected

\* C39 witness: the device entered through an object-added notification
\* that reported it connected.
C39_WitnessAdded ==
    /\ nEv = 1
    /\ WorkerEntered("InterfacesAdded")

\* C39 witness: the device entered through a property-changed notification,
\* the only one the worker has handled for it.
C39_WitnessChanged ==
    /\ bus[P1].dev /\ ~bus[P1].aux
    /\ WorkerEntered("PropertiesChanged")

\* C39 witness: the device entered through the refresh of a command.
C39_WitnessRefresh ==
    /\ Returning("trust")
    /\ EnteredConnected("cmd", "refresh")

\* C39 witness: a later bulk load reported a device the registry held as
\* connected, still connected, and dispatched no device-connected signal.
C39_WitnessLoadAgain ==
    LET tr == th["cmd"] IN
    /\ Returning("load") /\ tr.quiet
    /\ tr.calls = <<[m |-> "GetManagedObjects", ok |-> TRUE]>>
    /\ ConnectedIn(tr.pre, P1) /\ ConnectedIn(View, P1)
    /\ bus[P1].dev /\ bus[P1].Connected
    /\ Count(tr.heard, "connect") = 0

----------------------------------------------------------------------------
(* SpecLast: registry mutations one after another, and what the handler gets *)

MaxBacklog == 2

(* The engine with onChange registered, beside a scheduler that lets         *)
(* MaxBacklog handler goroutines wait.                                       *)
InitLast ==
    /\ bus \in {b \in [BusPaths -> {NoObject, [NoObject EXCEPT !.dev = TRUE]}] :
                  b[Foreign].dev}
    /\ devices = [p \in Loaded(bus) |-> 1]
    /\ heap = [i \in Ids |->
                 IF i = 1 /\ Loaded(bus) # {}
                 THEN ApplyProps(ZeroDevice, FullProps(bus[P1], P1),
                                 InOrder(KeyOrder, DOMAIN FullProps(bus[P1], P1)))
                 ELSE ZeroDevice]
    /\ origin = [p \in DOMAIN devices |-> "load"]
    /\ onChange = "h1"
    /\ onConnect = Nil
    /\ th = [t \in Threads |-> IdleThread]
    /\ pending = <<>>
    /\ held = NoSnapshot
    /\ queue = <<>>
    /\ nEv = 0
    /\ input = [path |-> Empty, props |-> NoProps]
    /\ stage = 0
    /\ call = NoCall
    /\ slots = MaxBacklog
    /\ after1 = ZeroDevice
    /\ NoDiscovery
    /\ nOps = 0

NextLast ==
    \/ BusAppear
    \/ BusVanish
    \/ BusConnectedChange
    \/ Receive
    \/ UpdLocked("worker")
    \/ UpdNotify("worker")
    \/ RmLocked("worker")
    \/ RmNotify("worker")
    \/ RunHandler

SpecLast == InitLast /\ [][NextLast]_vars

(* Every notification has been handled and every handler started has run.   *)
AllHandlersRan == Settled /\ pending = <<>>

(* The snapshot the handler received last holds the registry's devices. *)
LastIsFinal ==
    /\ Len(held.ptrs) = Cardinality(DOMAIN devices)
    /\ {held.ptrs[i] : i \in 1..Len(held.ptrs)} = Range(devices)

(* The handler started first runs first. *)
RunsOldest == Len(pending') < Len(pending) => pending' = Tail(pending)

\* C40: when several registry mutations happen one after another, the
\* registry-changed handler is invoked with their snapshots in the order of
\* the mutations, so the last snapshot the handler receives equals the final
\* registry state once all dispatched invocations have run.
C40_LastSnapshotIsFinal ==
    /\ []((AllHandlersRan /\ held.from = "onChange") => LastIsFinal)
    /\ [][RunsOldest]_vars

\* C40, what the code keeps: the handlers are started in the order of the
\* mutations, each with a snapshot of its own, one per mutation handled.
C40_StartedInOrder ==
    [][Len(pending') > Len(pending)
          => /\ Len(pending') = Len(pending) + 1
             /\ SubSeq(pending', 1, Len(pending)) = pending
             /\ pending'[Len(pending')].kind = "change"
             /\ th["worker"].pc \in {"upd_notify", "rm_notify"}]_vars

\* C40 counterexample state: the device was added and then removed; the
\* goroutine of the removal ran before the goroutine of the addition, so the
\* snapshot the handler received last holds the device and the registry is
\* empty.
C40_StaleLast ==
    /\ AllHandlersRan /\ held.from = "onChange"
    /\ nEv = 2 /\ ~bus[P1].dev
    /\ DOMAIN devices = {}
    /\ Len(held.ptrs) = 1 /\ held.seen[1].Address = Addr1

====
